---- MODULE Spec2Model ----
(***************************************************************************)
(* A model of the Databricks SQL formatter: the hand-written lexer         *)
(* (tokenize), the two merge passes (mergeClauseKeywords,                  *)
(* mergeUnquotedLanguageBody) and the single-pass format engine            *)
(* (formatDatabricksSQL).  Text is a sequence of one-character strings;    *)
(* positions are 1-based (the source's index i is pos - 1).                *)
(***************************************************************************)
EXTENDS Integers, Sequences, FiniteSets, TLC

VARIABLES
  input,    \* the text handed to formatDatabricksSQL / tokenize
  opts,     \* the merged FormatOptions
  pc,       \* "lex" | "lexed" | "render" | "done"
  pos,      \* tokenize: the scan position
  tokens,   \* tokenize: the tokens pushed so far
  merged,   \* formatDatabricksSQL: the token stream after both merge passes
  i,        \* formatDatabricksSQL: the render loop's index into merged
  st,       \* formatDatabricksSQL: the engine's local state
  output    \* the string returned

vars == <<input, opts, pc, pos, tokens, merged, i, st, output>>

-----------------------------------------------------------------------------
(* Characters and strings *)

LowerLetters ==
  <<"a","b","c","d","e","f","g","h","i","j","k","l","m",
    "n","o","p","q","r","s","t","u","v","w","x","y","z">>

UpperLetters ==
  <<"A","B","C","D","E","F","G","H","I","J","K","L","M",
    "N","O","P","Q","R","S","T","U","V","W","X","Y","Z">>

LowerSet == {LowerLetters[k] : k \in DOMAIN LowerLetters}
UpperSet == {UpperLetters[k] : k \in DOMAIN UpperLetters}
DigitSet == {"0","1","2","3","4","5","6","7","8","9"}

UpperOf == [c \in LowerSet |-> UpperLetters[CHOOSE k \in DOMAIN LowerLetters : LowerLetters[k] = c]]
LowerOf == [c \in UpperSet |-> LowerLetters[CHOOSE k \in DOMAIN UpperLetters : UpperLetters[k] = c]]

ToUpperCase(s) == [k \in DOMAIN s |-> IF s[k] \in LowerSet THEN UpperOf[s[k]] ELSE s[k]]
ToLowerCase(s) == [k \in DOMAIN s |-> IF s[k] \in UpperSet THEN LowerOf[s[k]] ELSE s[k]]

\* /[a-zA-Z_]/ and /[a-zA-Z0-9_]/
IsWordStart(c) == c \in LowerSet \/ c \in UpperSet \/ c = "_"
IsWordChar(c) == IsWordStart(c) \/ c \in DigitSet

\* the backtick character (the one character a TLA+ string cannot hold)
BackTick == "backtick"

\* the characters String.prototype.trim and \s remove
WhiteSpaceChars == {" ", "\t", "\n", "\r"}

Min(S) == CHOOSE m \in S : \A n \in S : m <= n
Max(S) == CHOOSE m \in S : \A n \in S : m >= n

\* input[p] with the source's bounds test (p past the end matches nothing)
CharAt(s, p) == IF p >= 1 /\ p <= Len(s) THEN s[p] ELSE "<none>"

\* while (i < input.length && input[i] in S) i++  -- the position it stops at
RunEnd(s, p, S) ==
  LET stop == {q \in p..Len(s) : s[q] \notin S}
  IN IF stop = {} THEN Len(s) + 1 ELSE Min(stop)

\* while (i < input.length && input[i] !== c) i++
FindChar(s, p, c) ==
  LET hit == {q \in p..Len(s) : s[q] = c}
  IN IF hit = {} THEN Len(s) + 1 ELSE Min(hit)

\* while (i < input.length && !(input[i] === a && i + 1 < input.length && input[i + 1] === b)) i++
FindPair(s, p, a, b) ==
  LET hit == {q \in p..Len(s) : s[q] = a /\ q + 1 <= Len(s) /\ s[q + 1] = b}
  IN IF hit = {} THEN Len(s) + 1 ELSE Min(hit)

Spaces(n) == [k \in 1..n |-> " "]

TrimEnd(s) ==
  LET keep == {k \in DOMAIN s : s[k] \notin WhiteSpaceChars}
  IN IF keep = {} THEN <<>> ELSE SubSeq(s, 1, Max(keep))

Trim(s) ==
  LET keep == {k \in DOMAIN s : s[k] \notin WhiteSpaceChars}
  IN IF keep = {} THEN <<>> ELSE SubSeq(s, Min(keep), Max(keep))

StartsWith(s, c) == Len(s) > 0 /\ s[1] = c

IsSubstring(t, s) ==
  \E p \in 0..(Len(s) - Len(t)) : SubSeq(s, p + 1, p + Len(t)) = t

CountChar(s, c) == Cardinality({k \in DOMAIN s : s[k] = c})

RECURSIVE Flatten(_)
Flatten(ss) == IF ss = <<>> THEN <<>> ELSE Head(ss) \o Flatten(Tail(ss))

-----------------------------------------------------------------------------
(* Tokens *)

TokenType ==
  [Keyword |-> "KEYWORD", Identifier |-> "IDENTIFIER", Number |-> "NUMBER",
   String |-> "STRING", Operator |-> "OPERATOR", Comma |-> "COMMA",
   OpenParen |-> "OPEN_PAREN", CloseParen |-> "CLOSE_PAREN",
   Semicolon |-> "SEMICOLON", Dot |-> "DOT", Whitespace |-> "WHITESPACE",
   Comment |-> "COMMENT", BlockComment |-> "BLOCK_COMMENT", Newline |-> "NEWLINE",
   Backtick |-> "BACKTICK_IDENT", Parameter |-> "PARAMETER",
   DollarQuotedString |-> "DOLLAR_QUOTED_STRING", EOF |-> "EOF"]

\* a token without the optional field original
NoOriginal == <<>>
Token(type, value) == [type |-> type, value |-> value, original |-> NoOriginal]
KeywordToken(value, original) == [type |-> TokenType.Keyword, value |-> value, original |-> original]
\* prevMeaningful === null
NullToken == [type |-> "null", value |-> <<>>, original |-> NoOriginal]

\* token.original ?? token.value
SourceText(t) == IF t.original = NoOriginal THEN t.value ELSE t.original

-----------------------------------------------------------------------------
(* Keyword tables.  Words are upper-case character sequences. *)

KW_ALL == <<"A","L","L">>
KW_AS == <<"A","S">>
KW_BY == <<"B","Y">>
KW_CASE == <<"C","A","S","E">>
KW_COMMENT == <<"C","O","M","M","E","N","T">>
KW_CONCAT == <<"C","O","N","C","A","T">>
KW_CONCAT_WS == <<"C","O","N","C","A","T","_","W","S">>
KW_COUNT == <<"C","O","U","N","T">>
KW_CREATE == <<"C","R","E","A","T","E">>
KW_ALTER == <<"A","L","T","E","R">>
KW_DROP == <<"D","R","O","P">>
KW_DISTINCT == <<"D","I","S","T","I","N","C","T">>
KW_ELSE == <<"E","L","S","E">>
KW_END == <<"E","N","D">>
KW_FROM == <<"F","R","O","M">>
KW_FUNCTION == <<"F","U","N","C","T","I","O","N">>
KW_GROUP == <<"G","R","O","U","P">>
KW_IN == <<"I","N">>
KW_JOIN == <<"J","O","I","N">>
KW_LANGUAGE == <<"L","A","N","G","U","A","G","E">>
KW_LEFT == <<"L","E","F","T">>
KW_NOT == <<"N","O","T">>
KW_ON == <<"O","N">>
KW_OUTER == <<"O","U","T","E","R">>
KW_SELECT == <<"S","E","L","E","C","T">>
KW_TABLE == <<"T","A","B","L","E">>
KW_TBLPROPERTIES == <<"T","B","L","P","R","O","P","E","R","T","I","E","S">>
KW_THEN == <<"T","H","E","N">>
KW_UNION == <<"U","N","I","O","N">>
KW_VIEW == <<"V","I","E","W">>
KW_WHEN == <<"W","H","E","N">>
KW_WHERE == <<"W","H","E","R","E">>

\* t.value + ' ' + suffix
Compound(a, b) == a \o <<" ">> \o b

KEYWORDS ==
  {KW_ALL, KW_AS, KW_BY, KW_CASE, KW_COMMENT, KW_CONCAT, KW_CONCAT_WS, KW_COUNT,
   KW_CREATE, KW_ALTER, KW_DROP, KW_DISTINCT, KW_ELSE, KW_END, KW_FROM,
   KW_FUNCTION, KW_GROUP, KW_IN, KW_JOIN, KW_LANGUAGE, KW_LEFT, KW_NOT, KW_ON,
   KW_OUTER, KW_SELECT, KW_TABLE, KW_TBLPROPERTIES, KW_THEN, KW_UNION, KW_VIEW,
   KW_WHEN, KW_WHERE}

CLAUSE_KEYWORDS ==
  {KW_SELECT, KW_FROM, KW_WHERE, KW_JOIN, KW_ON, KW_WHEN, KW_LANGUAGE,
   KW_TBLPROPERTIES, KW_UNION,
   Compound(KW_GROUP, KW_BY), Compound(KW_LEFT, KW_JOIN),
   Compound(KW_LEFT, Compound(KW_OUTER, KW_JOIN)), Compound(KW_UNION, KW_ALL)}

CONCAT_FUNCTIONS == {KW_CONCAT, KW_CONCAT_WS}
NON_FUNCTION_KEYWORDS == {KW_IN, Compound(KW_NOT, KW_IN)}

-----------------------------------------------------------------------------
(* tokenize: one pass of the scan loop at position p of s.                 *)
(* Rule(s, p) is the branch of the if-chain taken; Scan(s, p) is the token *)
(* it pushes and the position it leaves.                                   *)

TwoCharOperators == {<<"!","=">>, <<"<",">">>, <<">","=">>, <<"<","=">>, <<"|","|">>, <<"-",">">>}
OneCharOperators == {"+", "-", "*", "/", "%", "=", "<", ">", "|", "&", "^", "~", "!"}

Rule(s, p) ==
  LET ch == s[p]
      nx == CharAt(s, p + 1)
  IN IF ch = " " \/ ch = "\t" THEN "whitespace"
     ELSE IF ch = "\n" \/ ch = "\r" THEN "newline"
     ELSE IF ch = "-" /\ nx = "-" THEN "lineComment"
     ELSE IF ch = "/" /\ nx = "*" THEN "blockComment"
     ELSE IF ch = "'" THEN "string"
     ELSE IF ch = "\"" THEN "quotedIdentifier"
     ELSE IF ch = BackTick THEN "backtick"
     ELSE IF ch \in DigitSet \/ (ch = "." /\ nx \in DigitSet) THEN "number"
     ELSE IF ch \in {"(", ")", ",", ";", "."} THEN "symbol"
     ELSE IF SubSeq(s, p, Min({p + 1, Len(s)})) \in TwoCharOperators THEN "twoCharOperator"
     ELSE IF ch \in OneCharOperators THEN "oneCharOperator"
     ELSE IF ch = "$" /\ nx = "$" THEN "dollarQuoted"
     ELSE IF ch = "$" /\ nx = "{" THEN "dollarBrace"
     ELSE IF ch = "{" /\ nx = "{" THEN "jinja"
     ELSE IF ch = ":" \/ ch = "@" THEN "parameterMarker"
     ELSE IF IsWordStart(ch) THEN "word"
     ELSE "fallback"

\* the single-quoted string loop: the position after the string that opened
\* before q ('' is an escaped quote, a lone ' closes, the end of input closes)
RECURSIVE StringEnd(_, _)
StringEnd(s, q) ==
  IF q > Len(s) THEN q
  ELSE IF s[q] = "'" /\ q + 1 <= Len(s) /\ s[q + 1] = "'" THEN StringEnd(s, q + 2)
  ELSE IF s[q] = "'" THEN q + 1
  ELSE StringEnd(s, q + 1)

ScanWhitespace(s, p) ==
  LET e == RunEnd(s, p, {" ", "\t"})
  IN [tok |-> Token(TokenType.Whitespace, SubSeq(s, p, e - 1)), next |-> e]

\* a variant of ScanNewline that normalises \r\n to \n in the token
ScanNewlineNormalised(s, p) ==
  IF s[p] = "\r" /\ p + 1 <= Len(s) /\ s[p + 1] = "\n"
  THEN [tok |-> Token(TokenType.Newline, <<"\n">>), next |-> p + 2]
  ELSE [tok |-> Token(TokenType.Newline, <<s[p]>>), next |-> p + 1]

ScanNewline(s, p) ==
  IF s[p] = "\r" /\ p + 1 <= Len(s) /\ s[p + 1] = "\n"
  THEN [tok |-> Token(TokenType.Newline, <<"\r", "\n">>), next |-> p + 2]
  ELSE [tok |-> Token(TokenType.Newline, <<s[p]>>), next |-> p + 1]

ScanLineComment(s, p) ==
  LET e == FindChar(s, p, "\n")
  IN [tok |-> Token(TokenType.Comment, SubSeq(s, p, e - 1)), next |-> e]

ScanBlockComment(s, p) ==
  LET e == FindPair(s, p + 2, "*", "/")
      body == <<"/", "*">> \o SubSeq(s, p + 2, e - 1)
  IN IF e <= Len(s)
     THEN [tok |-> Token(TokenType.BlockComment, body \o <<"*", "/">>), next |-> e + 2]
     ELSE [tok |-> Token(TokenType.BlockComment, body), next |-> e]

ScanString(s, p) ==
  LET e == StringEnd(s, p + 1)
  IN [tok |-> Token(TokenType.String, <<"'">> \o SubSeq(s, p + 1, e - 1)), next |-> e]

\* the double-quoted and the backtick identifier: the same loop with another
\* delimiter and token type
ScanDelimited(s, p, d, type) ==
  LET e == FindChar(s, p + 1, d)
      body == <<d>> \o SubSeq(s, p + 1, e - 1)
  IN IF e <= Len(s)
     THEN [tok |-> Token(type, body \o <<d>>), next |-> e + 1]
     ELSE [tok |-> Token(type, body), next |-> e]

ScanNumber(s, p) ==
  LET e1 == RunEnd(s, p, DigitSet \cup {"."})
      hasExp == e1 <= Len(s) /\ s[e1] \in {"e", "E"}
      e2 == IF hasExp THEN e1 + 1 ELSE e1
      e3 == IF hasExp /\ e2 <= Len(s) /\ s[e2] \in {"+", "-"} THEN e2 + 1 ELSE e2
      e4 == IF hasExp THEN RunEnd(s, e3, DigitSet) ELSE e3
  IN [tok |-> Token(TokenType.Number, SubSeq(s, p, e4 - 1)), next |-> e4]

ScanSymbol(s, p) ==
  LET type == CASE s[p] = "(" -> TokenType.OpenParen
                [] s[p] = ")" -> TokenType.CloseParen
                [] s[p] = "," -> TokenType.Comma
                [] s[p] = ";" -> TokenType.Semicolon
                [] s[p] = "." -> TokenType.Dot
  IN [tok |-> Token(type, <<s[p]>>), next |-> p + 1]

ScanTwoCharOperator(s, p) ==
  [tok |-> Token(TokenType.Operator, SubSeq(s, p, p + 1)), next |-> p + 2]

\* the single-character operators and the fallback push the same token
ScanOneChar(s, p) ==
  [tok |-> Token(TokenType.Operator, <<s[p]>>), next |-> p + 1]

\* the dollar-quoted rule without the test for the closing delimiter
\* (tokenizer.ts:157-161 left out): the token runs to the end
ScanDollarQuotedToEnd(s, p) ==
  [tok |-> Token(TokenType.DollarQuotedString, SubSeq(s, p, Len(s))), next |-> Len(s) + 1]

ScanDollarQuoted(s, p) ==
  LET e == FindPair(s, p + 2, "$", "$")
      body == <<"$", "$">> \o SubSeq(s, p + 2, e - 1)
  IN IF e <= Len(s)
     THEN [tok |-> Token(TokenType.DollarQuotedString, body \o <<"$", "$">>), next |-> e + 2]
     ELSE [tok |-> Token(TokenType.DollarQuotedString, body), next |-> e]

ScanDollarBrace(s, p) ==
  LET e == FindChar(s, p + 2, "}")
      body == <<"$", "{">> \o SubSeq(s, p + 2, e - 1)
  IN IF e <= Len(s)
     THEN [tok |-> Token(TokenType.Parameter, body \o <<"}">>), next |-> e + 1]
     ELSE [tok |-> Token(TokenType.Parameter, body), next |-> e]

ScanJinja(s, p) ==
  LET e == FindPair(s, p + 2, "}", "}")
      body == <<"{", "{">> \o SubSeq(s, p + 2, e - 1)
  IN IF e <= Len(s)
     THEN [tok |-> Token(TokenType.Parameter, body \o <<"}", "}">>), next |-> e + 2]
     ELSE [tok |-> Token(TokenType.Parameter, body), next |-> e]

ScanParameterMarker(s, p) ==
  LET e == RunEnd(s, p + 1, LowerSet \cup UpperSet \cup DigitSet \cup {"_"})
  IN [tok |-> Token(TokenType.Parameter, SubSeq(s, p, e - 1)), next |-> e]

ScanWord(s, p) ==
  LET e == RunEnd(s, p, LowerSet \cup UpperSet \cup DigitSet \cup {"_"})
      word == SubSeq(s, p, e - 1)
      upper == ToUpperCase(word)
  IN IF upper \in KEYWORDS
     THEN [tok |-> KeywordToken(upper, word), next |-> e]
     ELSE [tok |-> Token(TokenType.Identifier, word), next |-> e]

Scan(s, p) ==
  LET r == Rule(s, p)
  IN CASE r = "whitespace" -> ScanWhitespace(s, p)
       [] r = "newline" -> ScanNewline(s, p)
       [] r = "lineComment" -> ScanLineComment(s, p)
       [] r = "blockComment" -> ScanBlockComment(s, p)
       [] r = "string" -> ScanString(s, p)
       [] r = "quotedIdentifier" -> ScanDelimited(s, p, "\"", TokenType.Identifier)
       [] r = "backtick" -> ScanDelimited(s, p, BackTick, TokenType.Backtick)
       [] r = "number" -> ScanNumber(s, p)
       [] r = "symbol" -> ScanSymbol(s, p)
       [] r = "twoCharOperator" -> ScanTwoCharOperator(s, p)
       [] r = "oneCharOperator" -> ScanOneChar(s, p)
       [] r = "dollarQuoted" -> ScanDollarQuoted(s, p)
       [] r = "dollarBrace" -> ScanDollarBrace(s, p)
       [] r = "jinja" -> ScanJinja(s, p)
       [] r = "parameterMarker" -> ScanParameterMarker(s, p)
       [] r = "word" -> ScanWord(s, p)
       [] r = "fallback" -> ScanOneChar(s, p)

EOFToken == Token(TokenType.EOF, <<>>)

\* tokenize(input) as one call
RECURSIVE TokenizeFrom(_, _)
TokenizeFrom(s, p) ==
  IF p > Len(s) THEN <<EOFToken>>
  ELSE LET r == Scan(s, p) IN <<r.tok>> \o TokenizeFrom(s, r.next)

Tokenize(s) == TokenizeFrom(s, 1)

-----------------------------------------------------------------------------
(* mergeClauseKeywords *)

IsBlank(t) == t.type = TokenType.Whitespace \/ t.type = TokenType.Newline

\* while (j < tokens.length && tokens[j] is whitespace or newline) j++
RECURSIVE SkipBlank(_, _)
SkipBlank(toks, j) ==
  IF j <= Len(toks) /\ IsBlank(toks[j]) THEN SkipBlank(toks, j + 1) ELSE j

\* the suffix phrases of each mergeable keyword, in table order, each split
\* into its words (suffix.split(' '))
Mergeables(value) ==
  CASE value = KW_GROUP -> << <<KW_BY>> >>
    [] value = KW_LEFT -> << <<KW_JOIN>>, <<KW_OUTER, KW_JOIN>> >>
    [] value = KW_NOT -> << <<KW_IN>> >>
    [] value = KW_UNION -> << <<KW_ALL>> >>
    [] OTHER -> << >>

\* the inner loop with the whitespace skip left out: a suffix word must be the
\* very next token
RECURSIVE MatchPartsAdjacent(_, _, _)
MatchPartsAdjacent(toks, j, parts) ==
  IF j <= Len(toks) /\ toks[j].type = TokenType.Keyword /\ toks[j].value = Head(parts)
  THEN IF Len(parts) = 1 THEN j ELSE MatchPartsAdjacent(toks, j + 1, Tail(parts))
  ELSE 0

\* the inner loop over the parts of one suffix, starting at token j: the index
\* of the last token consumed, or 0 when the suffix does not match
RECURSIVE MatchParts(_, _, _)
MatchParts(toks, j, parts) ==
  LET q == SkipBlank(toks, j)
  IN IF q <= Len(toks) /\ toks[q].type = TokenType.Keyword /\ toks[q].value = Head(parts)
     THEN IF Len(parts) = 1 THEN q ELSE MatchParts(toks, q + 1, Tail(parts))
     ELSE 0

\* the first suffix (in table order) that matches after token k: <<its index
\* in the table, the index of the last token it consumed>>, or <<0, 0>>
FirstMatch(toks, k, suffixes) ==
  LET hits == {n \in DOMAIN suffixes : MatchParts(toks, k + 1, suffixes[n]) > 0}
  IN IF hits = {} THEN <<0, 0>>
     ELSE <<Min(hits), MatchParts(toks, k + 1, suffixes[Min(hits)])>>

\* suffix as the table writes it: its words joined by single spaces
RECURSIVE JoinWords(_)
JoinWords(parts) ==
  IF Len(parts) = 1 THEN Head(parts) ELSE Compound(Head(parts), JoinWords(Tail(parts)))

\* { type: Keyword, value: t.value + ' ' + suffix, original: t.original }
MergedKeyword(t, parts) == KeywordToken(Compound(t.value, JoinWords(parts)), t.original)

RECURSIVE MergeFrom(_, _)
MergeFrom(toks, k) ==
  IF k > Len(toks) THEN <<>>
  ELSE LET t == toks[k]
           suffixes == IF t.type = TokenType.Keyword THEN Mergeables(t.value) ELSE << >>
           m == FirstMatch(toks, k, suffixes)
       IN IF m[1] > 0
          THEN <<MergedKeyword(t, suffixes[m[1]])>> \o MergeFrom(toks, m[2] + 1)
          ELSE <<t>> \o MergeFrom(toks, k + 1)

MergeClauseKeywords(toks) == MergeFrom(toks, 1)

-----------------------------------------------------------------------------
(* mergeUnquotedLanguageBody *)

\* the body loop: the first index at or after k holding a Semicolon or EOF
RECURSIVE BodyEnd(_, _)
BodyEnd(toks, k) ==
  IF k <= Len(toks) /\ toks[k].type # TokenType.Semicolon /\ toks[k].type # TokenType.EOF
  THEN BodyEnd(toks, k + 1) ELSE k

\* body += whitespace and newline values, and original ?? value of the rest
BodyText(toks, from, to) ==
  Flatten([k \in 1..(to - from + 1) |->
             IF IsBlank(toks[from + k - 1]) THEN toks[from + k - 1].value
             ELSE SourceText(toks[from + k - 1])])

RECURSIVE LanguageFrom(_, _)
LanguageFrom(toks, k) ==
  IF k > Len(toks) THEN <<>>
  ELSE
    LET t == toks[k]
        langIdPos == SkipBlank(toks, k + 1)
        asPos == SkipBlank(toks, langIdPos + 1)
        bodyPos == SkipBlank(toks, asPos + 1)
        keep == <<t>> \o LanguageFrom(toks, k + 1)
    IN IF t.type # TokenType.Keyword \/ t.value # KW_LANGUAGE THEN keep
       ELSE IF langIdPos > Len(toks)
               \/ (toks[langIdPos].type # TokenType.Identifier
                   /\ toks[langIdPos].type # TokenType.Keyword) THEN keep
       ELSE IF asPos > Len(toks) \/ toks[asPos].type # TokenType.Keyword
               \/ toks[asPos].value # KW_AS THEN keep
       ELSE IF bodyPos > Len(toks)
               \/ toks[bodyPos].type = TokenType.DollarQuotedString
               \/ toks[bodyPos].type = TokenType.String THEN keep
       ELSE LET e == BodyEnd(toks, asPos + 1)
                trimmed == TrimEnd(BodyText(toks, asPos + 1, e - 1))
            IN SubSeq(toks, k, asPos)
               \o (IF trimmed # <<>>
                   THEN <<Token(TokenType.DollarQuotedString, trimmed)>> ELSE <<>>)
               \o LanguageFrom(toks, e)

MergeUnquotedLanguageBody(toks) == LanguageFrom(toks, 1)

-----------------------------------------------------------------------------
(* The engine's lookahead helpers *)

RECURSIVE CountArgsFrom(_, _, _, _)
CountArgsFrom(toks, k, depth, commas) ==
  IF k > Len(toks) THEN commas + 1
  ELSE LET t == toks[k]
       IN IF IsBlank(t) THEN CountArgsFrom(toks, k + 1, depth, commas)
          ELSE IF t.type = TokenType.OpenParen THEN CountArgsFrom(toks, k + 1, depth + 1, commas)
          ELSE IF t.type = TokenType.CloseParen
               THEN IF depth = 0 THEN commas + 1
                    ELSE CountArgsFrom(toks, k + 1, depth - 1, commas)
          ELSE IF t.type = TokenType.Comma /\ depth = 0
               THEN CountArgsFrom(toks, k + 1, depth, commas + 1)
          ELSE CountArgsFrom(toks, k + 1, depth, commas)

CountTopLevelArgs(toks, start) == CountArgsFrom(toks, start, 0, 0)

RECURSIVE CountColumnsFrom(_, _, _, _)
CountColumnsFrom(toks, k, depth, commas) ==
  IF k > Len(toks) THEN commas + 1
  ELSE LET t == toks[k]
       IN IF IsBlank(t) THEN CountColumnsFrom(toks, k + 1, depth, commas)
          ELSE IF t.type = TokenType.EOF THEN commas + 1
          ELSE IF t.type = TokenType.OpenParen THEN CountColumnsFrom(toks, k + 1, depth + 1, commas)
          ELSE IF t.type = TokenType.CloseParen
               THEN IF depth = 0 THEN commas + 1
                    ELSE CountColumnsFrom(toks, k + 1, depth - 1, commas)
          ELSE IF depth = 0 /\ t.type = TokenType.Semicolon THEN commas + 1
          ELSE IF depth = 0 /\ t.type = TokenType.Keyword /\ t.value \in CLAUSE_KEYWORDS
               THEN commas + 1
          ELSE IF depth = 0 /\ t.type = TokenType.Comma
               THEN CountColumnsFrom(toks, k + 1, depth, commas + 1)
          ELSE CountColumnsFrom(toks, k + 1, depth, commas)

CountSelectColumns(toks, start) == CountColumnsFrom(toks, start, 0, 0)

FindNextNonWhitespace(toks, start) ==
  LET q == SkipBlank(toks, start)
  IN IF q <= Len(toks) THEN toks[q] ELSE NullToken

IsComment(t) == t.type = TokenType.Comment \/ t.type = TokenType.BlockComment

RECURSIVE FindNextMeaningful(_, _)
FindNextMeaningful(toks, k) ==
  IF k > Len(toks) THEN NullToken
  ELSE IF IsBlank(toks[k]) \/ IsComment(toks[k]) THEN FindNextMeaningful(toks, k + 1)
  ELSE toks[k]

-----------------------------------------------------------------------------
(* formatDatabricksSQL: the engine's state and its per-token branches.     *)
(* Every branch maps the state s before token toks[k] to the state after.  *)

DEFAULT_OPTIONS == [indentSize |-> 2, keywordCase |-> "upper", commaPosition |-> "trailing"]

\* the locals of formatDatabricksSQL as they are before the loop; pushed is
\* result.length > 0, result is result.join('')
InitialEngine ==
  [result |-> <<>>, pushed |-> FALSE,
   indentLevel |-> 0, lineStart |-> TRUE, statementStart |-> TRUE,
   parenStack |-> <<>>, caseStack |-> <<>>, prevMeaningful |-> NullToken,
   ddlContext |-> FALSE, blockParenPending |-> FALSE, functionContext |-> FALSE,
   afterBlockClose |-> FALSE, needNewlineBeforeFirstColumn |-> FALSE]

\* result.push(text)
Push(s, text) == [s EXCEPT !.result = @ \o text, !.pushed = TRUE]

\* indent() and ' '.repeat(opts.indentSize)
Indent(s) == Spaces(opts.indentSize * s.indentLevel)
OneLevel == Spaces(opts.indentSize)

\* a variant of ApplyCase that knows the upper policy only
ApplyCaseUpperOnly(token) ==
  IF token.type # TokenType.Keyword THEN token.value
  ELSE IF opts.keywordCase = "upper" THEN ToUpperCase(token.value)
  ELSE IF token.original # NoOriginal THEN token.original ELSE token.value

ApplyCase(token) ==
  IF token.type # TokenType.Keyword THEN token.value
  ELSE CASE opts.keywordCase = "upper" -> ToUpperCase(token.value)
         [] opts.keywordCase = "lower" -> ToLowerCase(token.value)
         [] opts.keywordCase = "preserve" ->
              IF token.original # NoOriginal THEN token.original ELSE token.value

\* parenStack.length > 0 ? parenStack[parenStack.length - 1] : null
TopParen(s) == IF s.parenStack = <<>> THEN "null" ELSE s.parenStack[Len(s.parenStack)]

IsKeyword(t, word) == t.type = TokenType.Keyword /\ t.value = word
IsClauseKeyword(t) == t.type = TokenType.Keyword /\ t.value \in CLAUSE_KEYWORDS

\* statementStart / block / concat: indent(), otherwise one level more
ContentIndent(s) ==
  IF s.statementStart \/ TopParen(s) = "block" \/ TopParen(s) = "concat"
  THEN Indent(s) ELSE Indent(s) \o OneLevel

\* if (!lineStart) { result.push('\n'); lineStart = true }   (comment, CASE)
BreakLine(s) ==
  IF ~s.lineStart THEN [Push(s, <<"\n">>) EXCEPT !.lineStart = TRUE] ELSE s

CommentIndent(s, next) ==
  IF next.type = TokenType.Keyword
  THEN IF (next.value = KW_WHEN \/ next.value = KW_ELSE) /\ s.caseStack # <<>>
         THEN Indent(s) \o OneLevel
       ELSE IF next.value = KW_END /\ s.caseStack # <<>> THEN Indent(s)
       ELSE IF next.value = KW_ON THEN Indent(s) \o OneLevel
       ELSE IF next.value \in CLAUSE_KEYWORDS THEN Indent(s)
       ELSE IF next.value = KW_CASE
         THEN IF s.statementStart \/ TopParen(s) = "block"
              THEN Indent(s) ELSE Indent(s) \o OneLevel
       ELSE ContentIndent(s)
  ELSE ContentIndent(s)

\* the comment branch without the exception for a comment that follows a
\* comment (the fourth conjunct of needsBlankLine, formatter.ts:84, left out)
RenderCommentUngrouped(s, toks, k) ==
  LET token == toks[k]
      s1 == BreakLine(s)
      prev == s1.prevMeaningful
      needsBlankLine ==
        /\ s1.pushed
        /\ ~s1.statementStart
        /\ prev.type # TokenType.Comma
        /\ prev.type # TokenType.OpenParen
        /\ ~IsKeyword(prev, KW_CASE)
      s2 == IF needsBlankLine THEN Push(s1, <<"\n">>) ELSE s1
      s3 == Push(Push(s2, CommentIndent(s2, FindNextMeaningful(toks, k + 1)) \o token.value),
                 <<"\n">>)
  IN [s3 EXCEPT !.lineStart = TRUE, !.prevMeaningful = token]

RenderComment(s, toks, k) ==
  LET token == toks[k]
      s1 == BreakLine(s)
      prev == s1.prevMeaningful
      needsBlankLine ==
        /\ s1.pushed
        /\ ~s1.statementStart
        /\ prev.type # TokenType.Comma
        /\ ~IsComment(prev)
        /\ prev.type # TokenType.OpenParen
        /\ ~IsKeyword(prev, KW_CASE)
      s2 == IF needsBlankLine THEN Push(s1, <<"\n">>) ELSE s1
      s3 == Push(Push(s2, CommentIndent(s2, FindNextMeaningful(toks, k + 1)) \o token.value),
                 <<"\n">>)
  IN [s3 EXCEPT !.lineStart = TRUE, !.prevMeaningful = token]

\* the DDL context tracking that precedes the branches
\* the DDL tracking without its AS case (formatter.ts:140-144 left out)
TrackDdlIgnoringAs(s, token) ==
  IF token.type # TokenType.Keyword THEN s
  ELSE LET val == token.value
           s1 == IF val = KW_CREATE \/ val = KW_ALTER \/ val = KW_DROP
                   THEN [s EXCEPT !.ddlContext = TRUE]
                 ELSE IF (val = KW_TABLE \/ val = KW_VIEW) /\ s.ddlContext
                   THEN [s EXCEPT !.blockParenPending = TRUE]
                 ELSE IF val = KW_FUNCTION /\ s.ddlContext
                   THEN [s EXCEPT !.functionContext = TRUE]
                 ELSE s
       IN IF val = KW_TBLPROPERTIES THEN [s1 EXCEPT !.blockParenPending = TRUE] ELSE s1

\* the DDL tracking with FUNCTION arming functionContext whatever ddlContext
\* holds (the ddlContext test of formatter.ts:138 left out)
TrackDdlAnyFunction(s, token) ==
  IF token.type # TokenType.Keyword THEN s
  ELSE LET val == token.value
           s1 == IF val = KW_CREATE \/ val = KW_ALTER \/ val = KW_DROP
                   THEN [s EXCEPT !.ddlContext = TRUE]
                 ELSE IF (val = KW_TABLE \/ val = KW_VIEW) /\ s.ddlContext
                   THEN [s EXCEPT !.blockParenPending = TRUE]
                 ELSE IF val = KW_FUNCTION
                   THEN [s EXCEPT !.functionContext = TRUE]
                 ELSE IF val = KW_AS /\ s.ddlContext
                   THEN [s EXCEPT !.blockParenPending = FALSE, !.ddlContext = FALSE]
                 ELSE s
       IN IF val = KW_TBLPROPERTIES THEN [s1 EXCEPT !.blockParenPending = TRUE] ELSE s1

TrackDdl(s, token) ==
  IF token.type # TokenType.Keyword THEN s
  ELSE LET val == token.value
           s1 == IF val = KW_CREATE \/ val = KW_ALTER \/ val = KW_DROP
                   THEN [s EXCEPT !.ddlContext = TRUE]
                 ELSE IF (val = KW_TABLE \/ val = KW_VIEW) /\ s.ddlContext
                   THEN [s EXCEPT !.blockParenPending = TRUE]
                 ELSE IF val = KW_FUNCTION /\ s.ddlContext
                   THEN [s EXCEPT !.functionContext = TRUE]
                 ELSE IF val = KW_AS /\ s.ddlContext
                   THEN [s EXCEPT !.blockParenPending = FALSE, !.ddlContext = FALSE]
                 ELSE s
       IN IF val = KW_TBLPROPERTIES THEN [s1 EXCEPT !.blockParenPending = TRUE] ELSE s1

RenderSemicolon(s, toks, k) ==
  [Push(s, <<";", "\n", "\n">>) EXCEPT
     !.indentLevel = 0, !.lineStart = TRUE, !.statementStart = TRUE,
     !.ddlContext = FALSE, !.blockParenPending = FALSE, !.functionContext = FALSE,
     !.afterBlockClose = FALSE, !.caseStack = <<>>,
     !.needNewlineBeforeFirstColumn = FALSE, !.prevMeaningful = toks[k]]

\* the classification with the block test before the subquery test
ParenKindBlockFirst(s, toks, k) ==
  LET nextNonWs == FindNextNonWhitespace(toks, k + 1)
      isConcatExpand ==
        /\ s.prevMeaningful.type = TokenType.Keyword
        /\ s.prevMeaningful.value \in CONCAT_FUNCTIONS
        /\ CountTopLevelArgs(toks, k + 1) > 2
  IN IF s.blockParenPending THEN "block"
     ELSE IF IsClauseKeyword(nextNonWs) THEN "subquery"
     ELSE IF isConcatExpand THEN "concat"
     ELSE "grouping"

\* the classification of the open paren toks[k]
ParenKind(s, toks, k) ==
  LET nextNonWs == FindNextNonWhitespace(toks, k + 1)
      isSubquery == IsClauseKeyword(nextNonWs)
      isBlock == ~isSubquery /\ s.blockParenPending
      isConcatExpand ==
        /\ ~isSubquery /\ ~isBlock
        /\ s.prevMeaningful.type = TokenType.Keyword
        /\ s.prevMeaningful.value \in CONCAT_FUNCTIONS
        /\ CountTopLevelArgs(toks, k + 1) > 2
  IN IF isSubquery THEN "subquery"
     ELSE IF isBlock THEN "block"
     ELSE IF isConcatExpand THEN "concat"
     ELSE "grouping"

\* the function-call test without the exception for IN and NOT IN
\* (the NON_FUNCTION_KEYWORDS conjunct of formatter.ts:214 left out)
IsFunctionCallAnyKeyword(prev) ==
  \/ prev.type = TokenType.Identifier
  \/ prev.type = TokenType.Backtick
  \/ (prev.type = TokenType.Keyword /\ prev.value \notin CLAUSE_KEYWORDS)

IsFunctionCall(prev) ==
  \/ prev.type = TokenType.Identifier
  \/ prev.type = TokenType.Backtick
  \/ (prev.type = TokenType.Keyword /\ prev.value \notin CLAUSE_KEYWORDS
      /\ prev.value \notin NON_FUNCTION_KEYWORDS)

\* a variant of RenderOpenParen that writes the indentation of a paren at a
\* line start, and not the paren
RenderOpenParenAtLineStart(s, toks, k) ==
  LET kind == ParenKind(s, toks, k)
      s0 == IF kind = "block" THEN [s EXCEPT !.blockParenPending = FALSE] ELSE s
      lead == IF s0.statementStart THEN Indent(s0) ELSE Indent(s0) \o OneLevel
      s1 == IF kind = "grouping"
              THEN [(IF s0.lineStart
                       THEN [Push(s0, lead) EXCEPT !.statementStart = FALSE]
                     ELSE IF ~IsFunctionCall(s0.prevMeaningful) THEN Push(s0, <<" ", "(">>)
                     ELSE Push(s0, <<"(">>))
                      EXCEPT !.parenStack = Append(@, kind), !.lineStart = FALSE]
              ELSE [Push(Push(Push(s0, IF s0.lineStart THEN Indent(s0) \o OneLevel ELSE <<" ">>),
                              <<"(">>), <<"\n">>)
                      EXCEPT !.parenStack = Append(@, kind), !.indentLevel = @ + 1,
                             !.lineStart = TRUE, !.statementStart = FALSE]
  IN [s1 EXCEPT !.prevMeaningful = toks[k]]

RenderOpenParen(s, toks, k) ==
  LET kind == ParenKind(s, toks, k)
      s0 == IF kind = "block" THEN [s EXCEPT !.blockParenPending = FALSE] ELSE s
      lead == IF s0.statementStart THEN Indent(s0) ELSE Indent(s0) \o OneLevel
      s1 == CASE kind \in {"subquery", "block"} ->
                   [Push(Push(Push(s0, IF s0.lineStart THEN Indent(s0) \o OneLevel ELSE <<" ">>),
                              <<"(">>), <<"\n">>)
                      EXCEPT !.parenStack = Append(@, kind), !.indentLevel = @ + 1,
                             !.lineStart = TRUE, !.statementStart = FALSE]
              [] kind = "concat" ->
                   [Push(Push(IF s0.lineStart
                                THEN [Push(s0, lead) EXCEPT !.statementStart = FALSE]
                                ELSE s0,
                              <<"(">>), <<"\n">>)
                      EXCEPT !.parenStack = Append(@, kind), !.indentLevel = @ + 1,
                             !.lineStart = TRUE]
              [] kind = "grouping" ->
                   [Push(IF s0.lineStart
                           THEN [Push(s0, lead) EXCEPT !.statementStart = FALSE]
                         ELSE IF ~IsFunctionCall(s0.prevMeaningful) THEN Push(s0, <<" ">>)
                         ELSE s0,
                         <<"(">>)
                      EXCEPT !.parenStack = Append(@, kind), !.lineStart = FALSE]
  IN [s1 EXCEPT !.prevMeaningful = toks[k]]

\* a variant of RenderCloseParen without the indentLevel > 0 guard
RenderCloseParenUnguarded(s, toks, k) ==
  LET parenType == IF s.parenStack # <<>> THEN TopParen(s) ELSE "grouping"
      popped == IF s.parenStack # <<>>
                  THEN [s EXCEPT !.parenStack = SubSeq(@, 1, Len(@) - 1)] ELSE s
      s1 == IF parenType \in {"subquery", "block", "concat"}
              THEN LET d == [popped EXCEPT !.indentLevel = @ - 1]
                       e == Push(d, <<"\n">> \o Indent(d) \o <<")">>)
                   IN IF TopParen(e) = "grouping"
                        THEN [e EXCEPT !.afterBlockClose = TRUE] ELSE e
              ELSE Push([popped EXCEPT !.afterBlockClose = FALSE], <<")">>)
  IN [s1 EXCEPT !.lineStart = FALSE, !.prevMeaningful = toks[k]]

RenderCloseParen(s, toks, k) ==
  LET parenType == IF s.parenStack # <<>> THEN TopParen(s) ELSE "grouping"
      popped == IF s.parenStack # <<>>
                  THEN [s EXCEPT !.parenStack = SubSeq(@, 1, Len(@) - 1)] ELSE s
      s1 == IF parenType \in {"subquery", "block", "concat"}
              THEN LET d == IF popped.indentLevel > 0
                              THEN [popped EXCEPT !.indentLevel = @ - 1] ELSE popped
                       e == Push(d, <<"\n">> \o Indent(d) \o <<")">>)
                   IN IF TopParen(e) = "grouping"
                        THEN [e EXCEPT !.afterBlockClose = TRUE] ELSE e
              ELSE Push([popped EXCEPT !.afterBlockClose = FALSE], <<")">>)
  IN [s1 EXCEPT !.lineStart = FALSE, !.prevMeaningful = toks[k]]

RenderCase(s, toks, k) ==
  LET s1 == IF s.afterBlockClose
              THEN [Push(s, <<"\n">>) EXCEPT !.lineStart = TRUE, !.afterBlockClose = FALSE]
              ELSE s
      s2 == BreakLine(s1)
      lead == IF s2.statementStart \/ TopParen(s2) = "block"
                THEN Indent(s2) ELSE Indent(s2) \o OneLevel
      s3 == Push(Push(s2, lead), ApplyCase(toks[k]))
  IN [s3 EXCEPT !.caseStack = Append(@, s3.indentLevel), !.indentLevel = @ + 1,
                !.lineStart = FALSE, !.statementStart = FALSE, !.prevMeaningful = toks[k]]

\* WHEN and ELSE inside a CASE block (the two branches have the same body)
RenderWhenElse(s, toks, k) ==
  LET s1 == IF ~s.lineStart THEN Push(s, <<"\n">>) ELSE s
      s2 == Push(s1, Indent(s1) \o OneLevel \o ApplyCase(toks[k]))
  IN [s2 EXCEPT !.lineStart = FALSE, !.statementStart = FALSE, !.prevMeaningful = toks[k]]

\* the END branch lowering indentLevel by one, the saved level thrown away
RenderEndLowering(s, toks, k) ==
  LET s1 == IF ~s.lineStart THEN Push(s, <<"\n">>) ELSE s
      s2 == Push(s1, Indent(s1) \o ApplyCase(toks[k]))
  IN [s2 EXCEPT !.indentLevel = @ - 1,
                !.caseStack = SubSeq(@, 1, Len(@) - 1),
                !.lineStart = FALSE, !.statementStart = FALSE, !.prevMeaningful = toks[k]]

RenderEnd(s, toks, k) ==
  LET s1 == IF ~s.lineStart THEN Push(s, <<"\n">>) ELSE s
      s2 == Push(s1, Indent(s1) \o ApplyCase(toks[k]))
  IN [s2 EXCEPT !.indentLevel = s2.caseStack[Len(s2.caseStack)],
                !.caseStack = SubSeq(@, 1, Len(@) - 1),
                !.lineStart = FALSE, !.statementStart = FALSE, !.prevMeaningful = toks[k]]

\* COMMENT in a function definition, and the clause keywords
RenderCommentKeyword(s, toks, k) ==
  LET s1 == IF ~s.lineStart /\ s.pushed THEN Push(s, <<"\n">>) ELSE s
      s2 == Push(s1, Indent(s1) \o ApplyCase(toks[k]))
  IN [s2 EXCEPT !.lineStart = FALSE, !.statementStart = FALSE, !.prevMeaningful = toks[k]]

\* the clause branch without its line break (formatter.ts:330-332 left out)
RenderClauseKeywordInline(s, toks, k) ==
  LET token == toks[k]
      extraIndent == IF token.value = KW_ON THEN OneLevel ELSE <<>>
      s2 == Push(s, Indent(s) \o extraIndent \o ApplyCase(token))
      s3 == IF token.value = KW_SELECT /\ CountSelectColumns(toks, k + 1) > 1
            THEN [s2 EXCEPT !.needNewlineBeforeFirstColumn = TRUE]
            ELSE s2
  IN [s3 EXCEPT !.lineStart = FALSE, !.statementStart = FALSE, !.prevMeaningful = token]

\* the clause branch without the extra indent of ON (formatter.ts:333 left out)
RenderClauseKeywordFlat(s, toks, k) ==
  LET token == toks[k]
      s1 == IF ~s.lineStart /\ s.pushed THEN Push(s, <<"\n">>) ELSE s
      s2 == Push(s1, Indent(s1) \o ApplyCase(token))
      s3 == IF token.value = KW_SELECT /\ CountSelectColumns(toks, k + 1) > 1
            THEN [s2 EXCEPT !.needNewlineBeforeFirstColumn = TRUE]
            ELSE s2
  IN [s3 EXCEPT !.lineStart = FALSE, !.statementStart = FALSE, !.prevMeaningful = token]

RenderClauseKeyword(s, toks, k) ==
  LET token == toks[k]
      s1 == IF ~s.lineStart /\ s.pushed THEN Push(s, <<"\n">>) ELSE s
      extraIndent == IF token.value = KW_ON THEN OneLevel ELSE <<>>
      s2 == Push(s1, Indent(s1) \o extraIndent \o ApplyCase(token))
      s3 == IF token.value = KW_SELECT /\ CountSelectColumns(toks, k + 1) > 1
              THEN [s2 EXCEPT !.needNewlineBeforeFirstColumn = TRUE] ELSE s2
  IN [s3 EXCEPT !.lineStart = FALSE, !.statementStart = FALSE, !.prevMeaningful = token]

\* the comma branch with a leading comma indented like clause content
RenderCommaContentIndent(s, toks, k) ==
  LET s1 == IF TopParen(s) = "grouping" /\ ~s.afterBlockClose
              THEN [Push(s, <<",">>) EXCEPT !.lineStart = FALSE]
            ELSE IF opts.commaPosition = "trailing"
              THEN [Push(s, <<",", "\n">>) EXCEPT !.lineStart = TRUE]
            ELSE [Push(s, <<"\n">> \o Indent(s) \o OneLevel \o <<",">>)
                    EXCEPT !.lineStart = FALSE]
  IN [s1 EXCEPT !.afterBlockClose = FALSE, !.prevMeaningful = toks[k]]

\* the comma branch without the inline case of grouping parens
\* (formatter.ts:354-356 left out)
RenderCommaBreaking(s, toks, k) ==
  LET s1 == IF opts.commaPosition = "trailing"
              THEN [Push(s, <<",", "\n">>) EXCEPT !.lineStart = TRUE]
            ELSE [Push(s, <<"\n">> \o Indent(s) \o <<",">>) EXCEPT !.lineStart = FALSE]
  IN [s1 EXCEPT !.afterBlockClose = FALSE, !.prevMeaningful = toks[k]]

RenderComma(s, toks, k) ==
  LET s1 == IF TopParen(s) = "grouping" /\ ~s.afterBlockClose
              THEN [Push(s, <<",">>) EXCEPT !.lineStart = FALSE]
            ELSE IF opts.commaPosition = "trailing"
              THEN [Push(s, <<",", "\n">>) EXCEPT !.lineStart = TRUE]
            ELSE [Push(s, <<"\n">> \o Indent(s) \o <<",">>) EXCEPT !.lineStart = FALSE]
  IN [s1 EXCEPT !.afterBlockClose = FALSE, !.prevMeaningful = toks[k]]

RenderDot(s, toks, k) ==
  [Push(s, <<".">>) EXCEPT !.lineStart = FALSE, !.prevMeaningful = toks[k]]

RenderAfterDot(s, toks, k) ==
  [Push(s, ApplyCase(toks[k])) EXCEPT !.lineStart = FALSE, !.prevMeaningful = toks[k]]

RenderDollarQuoted(s, toks, k) ==
  LET token == toks[k]
      s1 == IF ~s.lineStart
              THEN IF s.prevMeaningful.type = TokenType.OpenParen THEN s
                   ELSE IF StartsWith(token.value, "\n") \/ StartsWith(token.value, "\r") THEN s
                   ELSE Push(s, <<" ">>)
              ELSE Push(s, ContentIndent(s))
      s2 == Push(s1, token.value)
  IN [s2 EXCEPT !.lineStart = FALSE, !.statementStart = FALSE, !.prevMeaningful = token]

RenderDefault(s, toks, k) ==
  LET token == toks[k]
      s1 == IF s.needNewlineBeforeFirstColumn
                 /\ ~(IsKeyword(token, KW_DISTINCT) \/ IsKeyword(token, KW_ALL))
              THEN [Push(s, <<"\n">>) EXCEPT !.lineStart = TRUE,
                                            !.needNewlineBeforeFirstColumn = FALSE]
              ELSE s
      s2 == IF s1.afterBlockClose
              THEN [Push(s1, <<"\n">>) EXCEPT !.lineStart = TRUE, !.afterBlockClose = FALSE]
              ELSE s1
      s3 == IF ~s2.lineStart
              THEN IF s2.prevMeaningful.type = TokenType.OpenParen THEN s2
                   ELSE Push(s2, <<" ">>)
              ELSE [Push(s2, ContentIndent(s2)) EXCEPT !.lineStart = FALSE]
      s4 == Push(s3, ApplyCase(token))
  IN [s4 EXCEPT !.lineStart = FALSE, !.statementStart = FALSE, !.prevMeaningful = token]

\* the branch of the loop body that handles token in state s (the if-chain,
\* in the source's order)
\* the branch choice with WHEN taken as a CASE arm whatever caseStack holds
\* (the caseStack test of formatter.ts:280 left out)
BranchIgnoringCaseStack(s, token) ==
  IF IsBlank(token) THEN "skip"
  ELSE IF IsComment(token) THEN "comment"
  ELSE IF token.type = TokenType.EOF THEN "eof"
  ELSE IF token.type = TokenType.Semicolon THEN "semicolon"
  ELSE IF token.type = TokenType.OpenParen THEN "openParen"
  ELSE IF token.type = TokenType.CloseParen THEN "closeParen"
  ELSE IF IsKeyword(token, KW_CASE) THEN "case"
  ELSE IF IsKeyword(token, KW_WHEN) THEN "when"
  ELSE IF IsKeyword(token, KW_ELSE) /\ s.caseStack # <<>> THEN "else"
  ELSE IF IsKeyword(token, KW_END) /\ s.caseStack # <<>> THEN "end"
  ELSE IF IsKeyword(token, KW_COMMENT) /\ s.functionContext THEN "commentKeyword"
  ELSE IF IsClauseKeyword(token) THEN "clause"
  ELSE IF token.type = TokenType.Comma THEN "comma"
  ELSE IF token.type = TokenType.Dot THEN "dot"
  ELSE IF s.prevMeaningful.type = TokenType.Dot THEN "afterDot"
  ELSE IF token.type = TokenType.DollarQuotedString THEN "dollarQuoted"
  ELSE "default"

Branch(s, token) ==
  IF IsBlank(token) THEN "skip"
  ELSE IF IsComment(token) THEN "comment"
  ELSE IF token.type = TokenType.EOF THEN "eof"
  ELSE IF token.type = TokenType.Semicolon THEN "semicolon"
  ELSE IF token.type = TokenType.OpenParen THEN "openParen"
  ELSE IF token.type = TokenType.CloseParen THEN "closeParen"
  ELSE IF IsKeyword(token, KW_CASE) THEN "case"
  ELSE IF IsKeyword(token, KW_WHEN) /\ s.caseStack # <<>> THEN "when"
  ELSE IF IsKeyword(token, KW_ELSE) /\ s.caseStack # <<>> THEN "else"
  ELSE IF IsKeyword(token, KW_END) /\ s.caseStack # <<>> THEN "end"
  ELSE IF IsKeyword(token, KW_COMMENT) /\ s.functionContext THEN "commentKeyword"
  ELSE IF IsClauseKeyword(token) THEN "clause"
  ELSE IF token.type = TokenType.Comma THEN "comma"
  ELSE IF token.type = TokenType.Dot THEN "dot"
  ELSE IF s.prevMeaningful.type = TokenType.Dot THEN "afterDot"
  ELSE IF token.type = TokenType.DollarQuotedString THEN "dollarQuoted"
  ELSE "default"

\* one pass of the loop body over toks[k], which is not the EOF token
Step(s, toks, k) ==
  LET token == toks[k]
      b == Branch(s, token)
      t == TrackDdl(s, token)
  IN CASE b = "skip" -> s
       [] b = "comment" -> RenderComment(s, toks, k)
       [] b = "semicolon" -> RenderSemicolon(t, toks, k)
       [] b = "openParen" -> RenderOpenParen(t, toks, k)
       [] b = "closeParen" -> RenderCloseParen(t, toks, k)
       [] b = "case" -> RenderCase(t, toks, k)
       [] b \in {"when", "else"} -> RenderWhenElse(t, toks, k)
       [] b = "end" -> RenderEnd(t, toks, k)
       [] b = "commentKeyword" -> RenderCommentKeyword(t, toks, k)
       [] b = "clause" -> RenderClauseKeyword(t, toks, k)
       [] b = "comma" -> RenderComma(t, toks, k)
       [] b = "dot" -> RenderDot(t, toks, k)
       [] b = "afterDot" -> RenderAfterDot(t, toks, k)
       [] b = "dollarQuoted" -> RenderDollarQuoted(t, toks, k)
       [] b = "default" -> RenderDefault(t, toks, k)

\* the loop from index k to its break at EOF (or the end of the array)
RECURSIVE RunFrom(_, _, _)
RunFrom(s, toks, k) ==
  IF k > Len(toks) \/ toks[k].type = TokenType.EOF THEN s
  ELSE RunFrom(Step(s, toks, k), toks, k + 1)

\* a variant of Returned without the trim
ReturnedUntrimmed(s) == s.result \o <<"\n">>

\* return result.join('').trim() + '\n'
Returned(s) == Trim(s.result) \o <<"\n">>

MergePasses(toks) == MergeUnquotedLanguageBody(MergeClauseKeywords(toks))

\* formatDatabricksSQL(text, opts) as one call, under the options in opts
FormatDatabricksSQL(text) == Returned(RunFrom(InitialEngine, MergePasses(Tokenize(text)), 1))

-----------------------------------------------------------------------------
(* Inputs.  A sentence is a sequence of lexemes of one vocabulary, written *)
(* with a single space between two lexemes that would otherwise run        *)
(* together into one word.                                                 *)

MaxLen == 4
MaxChars == 3

L_a == <<"a">>
L_x == <<"x">>
L_comma == <<",">>
L_list == <<"a", ",", "a">>
L_open == <<"(">>
L_close == <<")">>
L_semi == <<";">>
L_dot == <<".">>
L_newline == <<"\n">>
L_string == <<"'", "s", "'">>
L_openString == <<"'", "u", " ">>
L_quoted == <<"\"", "q", "\"">>
L_backtick == <<BackTick, "b", BackTick>>
L_dollar == <<"$", "$", "d", "$", "$">>
L_lineComment == <<"-", "-", "c", " ">>
L_blockComment == <<"/", "*", "c", "*", "/">>
L_item == <<"a", ",">>
L_subquery == <<"(">> \o ToLowerCase(KW_SELECT) \o <<" ", "a", ")">>
L_concat == ToLowerCase(KW_CONCAT) \o <<"(">>
L_concatWs == ToLowerCase(KW_CONCAT_WS) \o <<"(">>
L_call == <<"x", "(", "a", ",", "a", ",", "a", ")", ",">>
L_createTable == ToLowerCase(KW_CREATE) \o <<" ">> \o ToLowerCase(KW_TABLE)
L_alterView == ToLowerCase(KW_ALTER) \o <<" ">> \o ToLowerCase(KW_VIEW)
L_remark == <<"-", "-", "c", "\n">>
L_concat3 == ToLowerCase(KW_CONCAT) \o <<"(", "a", ",", "a", ",", "a", ")">>
L_languageX == ToLowerCase(KW_LANGUAGE) \o <<" ", "x">>
L_openSelect == <<"(">> \o ToLowerCase(KW_SELECT)
L_Select == <<"S", "e", "l", "e", "c", "t">>
L_Group == <<"G", "r", "o", "u", "p">>
L_Left == <<"L", "e", "f", "t">>
L_By == <<"B", "y">>
L_Outer == <<"O", "u", "t", "e", "r">>
L_Ab == <<"A", "b">>

Lower(word) == ToLowerCase(word)

QueryVocabulary == {Lower(KW_SELECT), L_a, L_comma, L_list, L_open, L_close, L_semi}
CaseVocabulary ==
  {Lower(KW_CASE), Lower(KW_WHEN), Lower(KW_ELSE), Lower(KW_END), L_a, L_blockComment,
   L_close}
KeywordVocabulary == {L_Group, L_By, L_Left, L_Outer, Lower(KW_JOIN), L_dot, L_Ab}
LiteralVocabulary ==
  {L_string, L_openString, L_quoted, L_backtick, L_dollar, L_lineComment,
   L_blockComment, L_newline}
LanguageVocabulary ==
  {Lower(KW_LANGUAGE), L_x, Lower(KW_AS), L_Select, L_semi, L_dollar}
DdlVocabulary ==
  {Lower(KW_CREATE), Lower(KW_FUNCTION), Lower(KW_COMMENT), Lower(KW_TABLE), L_open, L_a}
SelectVocabulary ==
  {Lower(KW_SELECT), Lower(KW_DISTINCT), L_a, L_item, L_subquery}
CallVocabulary ==
  {L_concat, L_concatWs, L_item, L_call, L_close, Lower(KW_CASE)}
TableVocabulary ==
  {L_createTable, L_alterView, Lower(KW_TBLPROPERTIES), Lower(KW_AS), L_open, L_close,
   L_item, L_subquery}
JoinVocabulary ==
  {L_open, Lower(KW_SELECT), Lower(KW_JOIN), Lower(KW_ON), L_a, L_close}

CommentVocabulary ==
  {L_blockComment, Lower(KW_SELECT), L_a, L_comma, L_open, L_close, L_subquery}
ArmVocabulary ==
  {L_remark, Lower(KW_CASE), Lower(KW_WHEN), Lower(KW_ELSE), Lower(KW_END),
   L_subquery, L_openSelect}
FunctionVocabulary ==
  {Lower(KW_CREATE), Lower(KW_FUNCTION), Lower(KW_COMMENT), L_semi, L_blockComment,
   L_a, L_dollar}
NestVocabulary ==
  {L_open, L_close, L_subquery, L_comma, L_a, L_concat3, L_createTable}
SpacingVocabulary ==
  {L_open, L_a, L_backtick, Lower(KW_IN), Lower(KW_NOT), Lower(KW_FROM), L_dot}
BodyVocabulary ==
  {L_languageX, Lower(KW_AS), L_x, L_Group, L_By, L_semi, L_newline}

CaseOptions == {"upper", "lower", "preserve"}
CommaOptions == {"trailing", "leading"}
Options(sizes, cases, commas) ==
  {[indentSize |-> n, keywordCase |-> c, commaPosition |-> p] :
     n \in sizes, c \in cases, p \in commas}

Profiles ==
  {[vocabulary |-> QueryVocabulary, options |-> Options({2}, {"upper"}, CommaOptions)],
   [vocabulary |-> CaseVocabulary, options |-> Options({2, 3}, {"upper"}, {"trailing"})],
   [vocabulary |-> KeywordVocabulary, options |-> Options({2}, CaseOptions, {"trailing"})],
   [vocabulary |-> LiteralVocabulary, options |-> Options({2}, {"upper"}, {"trailing"})],
   [vocabulary |-> LanguageVocabulary, options |-> Options({2}, {"upper", "lower"}, {"trailing"})],
   [vocabulary |-> DdlVocabulary, options |-> Options({1}, {"upper"}, CommaOptions)],
   [vocabulary |-> SelectVocabulary, options |-> Options({2}, {"upper"}, {"trailing"})],
   [vocabulary |-> CallVocabulary, options |-> Options({2}, {"upper"}, CommaOptions)],
   [vocabulary |-> TableVocabulary, options |-> Options({2}, {"upper"}, {"trailing"})],
   [vocabulary |-> JoinVocabulary, options |-> Options({2, 4}, {"upper"}, {"trailing"})]}

LayoutProfiles ==
  {[vocabulary |-> CommentVocabulary, options |-> Options({2}, {"upper"}, {"trailing"})],
   [vocabulary |-> ArmVocabulary, options |-> Options({2}, {"upper"}, {"trailing"})],
   [vocabulary |-> FunctionVocabulary, options |-> Options({2}, {"upper"}, {"trailing"})],
   [vocabulary |-> NestVocabulary, options |-> Options({2}, {"upper"}, CommaOptions)],
   [vocabulary |-> SpacingVocabulary, options |-> Options({2}, {"upper"}, {"trailing"})],
   [vocabulary |-> BodyVocabulary, options |-> Options({2}, {"upper"}, {"trailing"})]}

\* a space is written between two lexemes exactly when the first ends and the
\* second starts with a word character
RECURSIVE Sentence(_)
Sentence(ws) ==
  IF ws = <<>> THEN <<>>
  ELSE IF Len(ws) = 1 THEN ws[1]
  ELSE LET a == ws[1]
           b == ws[2]
           gap == IF IsWordChar(a[Len(a)]) /\ IsWordChar(b[1]) THEN <<" ">> ELSE <<>>
       IN a \o gap \o Sentence(Tail(ws))

\* the sequences of at most n members of the set S
Lists(S, n) == UNION {[1..m -> S] : m \in 0..n}

\* the texts of a series of calls: between them they take every branch of the
\* render loop, and three of them end inside an open paren, CASE or SELECT list
CallTexts ==
  {Sentence(<<Lower(KW_SELECT), L_list, Lower(KW_FROM), L_subquery, L_semi>>),
   Sentence(<<Lower(KW_CASE), Lower(KW_WHEN), L_a, Lower(KW_ELSE), L_a, Lower(KW_END)>>),
   Sentence(<<Lower(KW_CREATE), Lower(KW_FUNCTION), L_a, Lower(KW_COMMENT), L_dollar,
              L_blockComment, L_a, L_dot, L_a>>),
   Sentence(<<L_createTable, L_open, Lower(KW_CASE)>>),
   Sentence(<<L_open, Lower(KW_SELECT), L_item>>),
   L_a}

\* the pieces a text is made of: single characters, and the two-character
\* delimiters
LexAlphabet ==
  {<<" ">>, <<"\n">>, <<"\r">>, <<"-">>, <<"/">>, <<"*">>, <<"'">>, <<"\"">>,
   <<BackTick>>, <<"1">>, <<".">>, <<"e">>, <<">">>, <<"$">>, <<"{">>, <<"}">>,
   <<":">>, <<"o">>, <<"n">>,
   <<"/", "*">>, <<"*", "/">>, <<"$", "$">>, <<"{", "{">>, <<"}", "}">>}

-----------------------------------------------------------------------------
(* The state machine *)

Init ==
  /\ \E p \in Profiles :
       /\ \E ws \in Lists(p.vocabulary, MaxLen) : input = Sentence(ws)
       /\ opts \in p.options
  /\ pc = "start"
  /\ pos = 1
  /\ tokens = <<>>
  /\ merged = <<>>
  /\ i = 1
  /\ st = InitialEngine
  /\ output = <<>>

\* the same call, on sentences about comments, parens and function definitions
InitLayout ==
  /\ \E p \in LayoutProfiles :
       /\ \E ws \in Lists(p.vocabulary, MaxLen) : input = Sentence(ws)
       /\ opts \in p.options
  /\ pc = "start"
  /\ pos = 1
  /\ tokens = <<>>
  /\ merged = <<>>
  /\ i = 1
  /\ st = InitialEngine
  /\ output = <<>>

\* the first call of a series of calls
InitCalls ==
  /\ input \in CallTexts
  /\ opts \in Options({2, 4}, {"upper"}, {"trailing"})
  /\ pc = "start"
  /\ pos = 1
  /\ tokens = <<>>
  /\ merged = <<>>
  /\ i = 1
  /\ st = InitialEngine
  /\ output = <<>>

InitLex ==
  /\ \E ps \in Lists(LexAlphabet, MaxChars) : input = Flatten(ps)
  /\ opts = DEFAULT_OPTIONS
  /\ pc = "lex"
  /\ pos = 1
  /\ tokens = <<>>
  /\ merged = <<>>
  /\ i = 1
  /\ st = InitialEngine
  /\ output = <<>>

\* the scan loop is at a character that the branch named rule handles
Scanning(rule) == pc = "lex" /\ pos <= Len(input) /\ Rule(input, pos) = rule

\* tokenize: one pass of the while loop
Consume ==
  /\ tokens' = Append(tokens, Scan(input, pos).tok)
  /\ pos' = Scan(input, pos).next
  /\ UNCHANGED <<input, opts, pc, merged, i, st, output>>

LexWhitespace ==
  /\ Scanning("whitespace")
  /\ Consume

LexNewline ==
  /\ Scanning("newline")
  /\ Consume

LexLineComment ==
  /\ Scanning("lineComment")
  /\ Consume

LexBlockComment ==
  /\ Scanning("blockComment")
  /\ Consume

LexString ==
  /\ Scanning("string")
  /\ Consume

LexQuotedIdentifier ==
  /\ Scanning("quotedIdentifier")
  /\ Consume

LexBacktick ==
  /\ Scanning("backtick")
  /\ Consume

LexNumber ==
  /\ Scanning("number")
  /\ Consume

LexSymbol ==
  /\ Scanning("symbol")
  /\ Consume

LexTwoCharOperator ==
  /\ Scanning("twoCharOperator")
  /\ Consume

LexOneCharOperator ==
  /\ Scanning("oneCharOperator")
  /\ Consume

LexDollarQuoted ==
  /\ Scanning("dollarQuoted")
  /\ Consume

LexDollarBrace ==
  /\ Scanning("dollarBrace")
  /\ Consume

LexJinja ==
  /\ Scanning("jinja")
  /\ Consume

LexParameterMarker ==
  /\ Scanning("parameterMarker")
  /\ Consume

LexWord ==
  /\ Scanning("word")
  /\ Consume

LexFallback ==
  /\ Scanning("fallback")
  /\ Consume

\* a variant of LexEOF that returns without the EOF token
LexEOFOmitted ==
  /\ pc = "lex"
  /\ pos > Len(input)
  /\ pc' = "lexed"
  /\ UNCHANGED <<input, opts, pos, tokens, merged, i, st, output>>

\* tokenize: the loop has ended; push EOF and return
LexEOF ==
  /\ pc = "lex"
  /\ pos > Len(input)
  /\ tokens' = Append(tokens, EOFToken)
  /\ pc' = "lexed"
  /\ UNCHANGED <<input, opts, pos, merged, i, st, output>>

NextLex ==
  \/ LexWhitespace \/ LexNewline \/ LexLineComment \/ LexBlockComment
  \/ LexString \/ LexQuotedIdentifier \/ LexBacktick \/ LexNumber \/ LexSymbol
  \/ LexTwoCharOperator \/ LexOneCharOperator \/ LexDollarQuoted
  \/ LexDollarBrace \/ LexJinja \/ LexParameterMarker \/ LexWord \/ LexFallback
  \/ LexEOF

\* a variant of Start that keeps the engine's locals of the call before
StartReusingLocals ==
  /\ pc = "start"
  /\ tokens' = Tokenize(input)
  /\ merged' = MergePasses(Tokenize(input))
  /\ i' = 1
  /\ pc' = "render"
  /\ UNCHANGED <<input, opts, pos, output, st>>

\* formatDatabricksSQL up to its loop: tokenize, the locals, the merge passes
Start ==
  /\ pc = "start"
  /\ tokens' = Tokenize(input)
  /\ merged' = MergePasses(Tokenize(input))
  /\ st' = InitialEngine
  /\ i' = 1
  /\ pc' = "render"
  /\ UNCHANGED <<input, opts, pos, output>>

\* the render loop is at a token that the branch named b handles
At(b) == pc = "render" /\ i <= Len(merged) /\ Branch(st, merged[i]) = b

\* one pass of the render loop
Advance ==
  /\ st' = Step(st, merged, i)
  /\ i' = i + 1
  /\ UNCHANGED <<input, opts, pc, pos, tokens, merged, output>>

SkipBlankToken ==
  /\ At("skip")
  /\ Advance

EmitComment ==
  /\ At("comment")
  /\ Advance

EmitSemicolon ==
  /\ At("semicolon")
  /\ Advance

EmitOpenParen ==
  /\ At("openParen")
  /\ Advance

EmitCloseParen ==
  /\ At("closeParen")
  /\ Advance

EmitCase ==
  /\ At("case")
  /\ Advance

EmitWhen ==
  /\ At("when")
  /\ Advance

EmitElse ==
  /\ At("else")
  /\ Advance

EmitEnd ==
  /\ At("end")
  /\ Advance

EmitCommentKeyword ==
  /\ At("commentKeyword")
  /\ Advance

EmitClauseKeyword ==
  /\ At("clause")
  /\ Advance

EmitComma ==
  /\ At("comma")
  /\ Advance

EmitDot ==
  /\ At("dot")
  /\ Advance

EmitAfterDot ==
  /\ At("afterDot")
  /\ Advance

EmitDollarQuoted ==
  /\ At("dollarQuoted")
  /\ Advance

EmitDefault ==
  /\ At("default")
  /\ Advance

\* the loop breaks at EOF (or runs off the array) and the function returns
Return ==
  /\ pc = "render"
  /\ (i > Len(merged) \/ merged[i].type = TokenType.EOF)
  /\ output' = Returned(st)
  /\ pc' = "done"
  /\ UNCHANGED <<input, opts, pos, tokens, merged, i, st>>

\* the function is called again, with any text and options; what the call
\* before left in its locals is still lying about
CallAgain ==
  /\ pc = "done"
  /\ input' \in CallTexts
  /\ opts' \in Options({2, 4}, {"upper"}, {"trailing"})
  /\ pc' = "start"
  /\ output' = <<>>
  /\ UNCHANGED <<pos, tokens, merged, i, st>>

Next ==
  \/ Start
  \/ SkipBlankToken \/ EmitComment \/ EmitSemicolon \/ EmitOpenParen
  \/ EmitCloseParen \/ EmitCase \/ EmitWhen \/ EmitElse \/ EmitEnd
  \/ EmitCommentKeyword \/ EmitClauseKeyword \/ EmitComma \/ EmitDot
  \/ EmitAfterDot \/ EmitDollarQuoted \/ EmitDefault
  \/ Return

Spec == Init /\ [][Next]_vars
SpecLex == InitLex /\ [][NextLex]_vars
SpecLayout == InitLayout /\ [][Next]_vars

NextCalls == Next \/ CallAgain
SpecCalls == InitCalls /\ [][NextCalls]_vars


-----------------------------------------------------------------------------
(* Properties.                                                             *)

\* the text the current pass of the render loop appends to result
AddedText == SubSeq(st'.result, Len(st.result) + 1, Len(st'.result))

\* a pass of the render loop (and not a stuttering step)
RenderPass == pc = "render" /\ pc' = "render" /\ i' = i + 1

\* text stands in added with nothing but layout whitespace around it
IsLayoutAround(added, text) ==
  \E p \in 0..(Len(added) - Len(text)) :
    /\ SubSeq(added, p + 1, p + Len(text)) = text
    /\ \A q \in 1..p : added[q] \in WhiteSpaceChars
    /\ \A q \in (p + Len(text) + 1)..Len(added) : added[q] \in WhiteSpaceChars

\* a word under the requested keywordCase
Cased(word) ==
  CASE opts.keywordCase = "upper" -> ToUpperCase(word)
    [] opts.keywordCase = "lower" -> ToLowerCase(word)
    [] opts.keywordCase = "preserve" -> word

IsKeywordToken(t) == t.type = TokenType.Keyword

\* the keywords of a token sequence as their source spelled them, in order
KeywordWords(toks) ==
  LET kws == SelectSeq(toks, IsKeywordToken)
  IN [k \in DOMAIN kws |-> kws[k].original]

\* the tokens whose text the formatter has to keep as it is
IsLiteral(t) ==
  \/ t.type \in {TokenType.String, TokenType.Backtick, TokenType.DollarQuotedString,
                 TokenType.Comment, TokenType.BlockComment}
  \/ (t.type = TokenType.Identifier /\ StartsWith(t.value, "\""))

\* what the branches below the CASE family do with toks[k]
OrdinaryRender(s, toks, k) ==
  LET t == TrackDdl(s, toks[k])
  IN IF IsClauseKeyword(toks[k]) THEN RenderClauseKeyword(t, toks, k)
     ELSE IF s.prevMeaningful.type = TokenType.Dot THEN RenderAfterDot(t, toks, k)
     ELSE RenderDefault(t, toks, k)

----
\* C1: formatDatabricksSQL never fails.  The loop index stays inside the token
\* array and the indentation count never goes negative (so no repeat() can
\* throw); a ')' met with an empty parenStack is written as a grouping close,
\* leaving the stack and the indent level alone; WHEN, ELSE and END met with
\* an empty caseStack are rendered by the ordinary branches (clause keyword,
\* after-dot or default) and leave the CASE stack and the indent level alone.
C1_Safe ==
  pc = "render" =>
    /\ i \in DOMAIN merged
    /\ merged[Len(merged)].type = TokenType.EOF
    /\ st.indentLevel >= 0
    /\ \A k \in DOMAIN st.caseStack : st.caseStack[k] >= 0

C1_Fallthrough ==
  RenderPass =>
    LET token == merged[i]
    IN /\ (token.type = TokenType.CloseParen /\ st.parenStack = <<>>) =>
            /\ st'.result = st.result \o <<")">>
            /\ st'.parenStack = <<>>
            /\ st'.indentLevel = st.indentLevel
       /\ (IsKeywordToken(token) /\ token.value \in {KW_WHEN, KW_ELSE, KW_END}
             /\ st.caseStack = <<>>) =>
            /\ st' = OrdinaryRender(st, merged, i)
            /\ st'.caseStack = <<>>
            /\ st'.indentLevel = st.indentLevel

C1_NeverFails == []C1_Safe /\ [][C1_Fallthrough]_vars

\* an input with ')' and END but no '(' and no CASE has been formatted
C1_Witness ==
  /\ pc = "done"
  /\ \E k \in DOMAIN merged : merged[k].type = TokenType.CloseParen
  /\ \E k \in DOMAIN merged : IsKeyword(merged[k], KW_END)
  /\ \E k \in DOMAIN merged : IsKeyword(merged[k], KW_WHEN)
  /\ \A k \in DOMAIN merged : ~IsKeyword(merged[k], KW_CASE)
  /\ Len(output) > 1

----
\* C2: the returned string is a body followed by one '\n'; the body neither
\* begins nor ends with a whitespace character (so the string ends with
\* exactly one '\n'), and it is empty when the input is empty or blank.
C2_OneTrailingNewline ==
  pc = "done" =>
    LET body == SubSeq(output, 1, Len(output) - 1)
    IN /\ Len(output) >= 1
       /\ output[Len(output)] = "\n"
       /\ body # <<>> => (body[1] \notin WhiteSpaceChars
                          /\ body[Len(body)] \notin WhiteSpaceChars)
       /\ Trim(input) = <<>> => output = <<"\n">>

\* a result that had whitespace at both ends has been returned
C2_Witness ==
  /\ pc = "done"
  /\ Len(output) > 1
  /\ st.result[1] \in WhiteSpaceChars
  /\ st.result[Len(st.result)] \in WhiteSpaceChars

----
\* C3: the text of every string, quoted identifier, backtick identifier,
\* dollar-quoted string and comment token of the lexer stands in the output,
\* character for character.
C3_LiteralsVerbatim ==
  pc = "done" =>
    \A k \in DOMAIN tokens : IsLiteral(tokens[k]) => IsSubstring(tokens[k].value, output)

----
\* a lexically well-formed single statement: the quoted forms are closed, the
\* parentheses and the CASE ... END pairs are balanced, WHEN and ELSE stand
\* inside a CASE, and there is no semicolon but possibly a final one
Closed(t) ==
  LET v == t.value
      n == Len(v)
  IN CASE t.type = TokenType.String -> n >= 2 /\ v[n] = "'"
       [] t.type = TokenType.Backtick -> n >= 2 /\ v[n] = BackTick
       [] t.type = TokenType.Identifier /\ StartsWith(v, "\"") -> n >= 2 /\ v[n] = "\""
       [] t.type = TokenType.DollarQuotedString -> n >= 4 /\ SubSeq(v, n - 1, n) = <<"$", "$">>
       [] t.type = TokenType.BlockComment -> n >= 4 /\ SubSeq(v, n - 1, n) = <<"*", "/">>
       [] OTHER -> TRUE

RECURSIVE Balanced(_, _, _, _)
Balanced(toks, k, parens, cases) ==
  IF k > Len(toks) THEN parens = 0 /\ cases = 0
  ELSE LET t == toks[k]
       IN IF t.type = TokenType.OpenParen THEN Balanced(toks, k + 1, parens + 1, cases)
          ELSE IF t.type = TokenType.CloseParen
            THEN parens > 0 /\ Balanced(toks, k + 1, parens - 1, cases)
          ELSE IF IsKeyword(t, KW_CASE) THEN Balanced(toks, k + 1, parens, cases + 1)
          ELSE IF IsKeyword(t, KW_END)
            THEN cases > 0 /\ Balanced(toks, k + 1, parens, cases - 1)
          ELSE IF IsKeyword(t, KW_WHEN) \/ IsKeyword(t, KW_ELSE)
            THEN cases > 0 /\ Balanced(toks, k + 1, parens, cases)
          ELSE Balanced(toks, k + 1, parens, cases)

WellFormed(toks) ==
  /\ \E k \in DOMAIN toks : ~IsBlank(toks[k]) /\ ~IsComment(toks[k])
                            /\ toks[k].type \notin {TokenType.EOF, TokenType.Semicolon}
  /\ \A k \in DOMAIN toks : Closed(toks[k])
  /\ \A k \in DOMAIN toks :
       toks[k].type = TokenType.Semicolon => toks[k + 1].type = TokenType.EOF
  /\ Balanced(toks, 1, 0, 0)

\* C4: under the default options, formatting the output of a well-formed
\* statement again returns that output.
C4_Idempotent ==
  (pc = "done" /\ opts = DEFAULT_OPTIONS /\ WellFormed(tokens)) =>
    FormatDatabricksSQL(output) = output

----
\* C5 as the specification words it: under the upper and the lower policy the
\* keywords of the output are the keywords of the input, each in the requested
\* case.
C5_EveryKeywordCased ==
  (pc = "done" /\ opts.keywordCase \in {"upper", "lower"}) =>
    LET words == KeywordWords(tokens)
    IN KeywordWords(Tokenize(output)) = [k \in DOMAIN words |-> Cased(words[k])]

\* C5: every pass of the render loop over a token of the merged stream appends
\* layout whitespace and the token: a Keyword token (a built-in function name,
\* a merged compound, a keyword after a dot) in upper case under the upper
\* policy and in lower case under the lower policy, any other token with its
\* text as the lexer (or the LANGUAGE body merge) made it.
C5_Pass ==
  (RenderPass /\ ~IsBlank(merged[i])
     /\ (IsKeywordToken(merged[i]) => opts.keywordCase \in {"upper", "lower"})) =>
    LET token == merged[i]
    IN /\ SubSeq(st'.result, 1, Len(st.result)) = st.result
       /\ IsLayoutAround(AddedText,
                         IF IsKeywordToken(token) THEN Cased(token.value) ELSE token.value)

C5_KeywordCase == [][C5_Pass]_vars

\* under the lower policy a merged compound keyword, a keyword after a dot and
\* a mixed-case identifier have been written
C5_Witness ==
  /\ pc = "done"
  /\ opts.keywordCase = "lower"
  /\ \E k \in DOMAIN merged : merged[k].value = Compound(KW_GROUP, KW_BY)
  /\ \E k \in DOMAIN merged :
       k > 1 /\ IsKeywordToken(merged[k]) /\ merged[k - 1].type = TokenType.Dot
  /\ IsSubstring(L_Ab, output)

----
\* C6: under the preserve policy the keywords of the output are the keywords
\* of the input, each spelled as the source spelled it.
C6_PreserveEveryWord ==
  (pc = "done" /\ opts.keywordCase = "preserve") =>
    KeywordWords(Tokenize(output)) = KeywordWords(tokens)

----
\* C7: each pass of the render loop writes as many '(' and as many ')' as the
\* text of its token holds (one '(' for an OpenParen, one ')' for a CloseParen,
\* none for any other token outside a literal), and so the returned text has
\* as many '(' and as many ')' as the input.
C7_Pass ==
  RenderPass =>
    \A c \in {"(", ")"} :
      CountChar(AddedText, c) = IF IsBlank(merged[i]) THEN 0 ELSE CountChar(merged[i].value, c)

C7_Returned ==
  pc = "done" => \A c \in {"(", ")"} : CountChar(output, c) = CountChar(input, c)

C7_ParenCount == []C7_Returned /\ [][C7_Pass]_vars

\* a subquery paren at the start of the text, left open, and a grouping paren
\* with its close have been written
C7_Witness ==
  /\ pc = "done"
  /\ CountChar(output, "(") = 2
  /\ CountChar(output, ")") = 1
  /\ output[1] = "("
  /\ st.parenStack = <<"subquery">>

----
\* C8: under the default options, the text written for a well-formed
\* statement that follows a semicolon is the text that formatting it alone returns (without the final newline):
\* it begins at column 0 and owes nothing to what came before the semicolon.
C8_StatementsIndependent ==
  (pc = "render" /\ i > 1 /\ merged[i - 1].type = TokenType.Semicolon
     /\ opts = DEFAULT_OPTIONS /\ WellFormed(SubSeq(merged, i, Len(merged)))) =>
    LET whole == RunFrom(st, merged, i).result
        emitted == SubSeq(whole, Len(st.result) + 1, Len(whole))
        alone == RunFrom(InitialEngine, SubSeq(merged, i, Len(merged)), 1).result
    IN TrimEnd(emitted) = Trim(alone)

----
\* C9 as the specification words it: the values of the tokens, joined in
\* order, are the input.
C9_ValuesJoinToInput ==
  pc = "lexed" => Flatten([k \in DOMAIN tokens |-> tokens[k].value]) = input

\* C9: the source texts of the tokens (the original spelling of a keyword, the
\* value of any other token), joined in order, are the input read so far, and
\* the whole input when tokenize returns.
C9_Lossless ==
  /\ pc \in {"lex", "lexed"}
  /\ Flatten([k \in DOMAIN tokens |-> SourceText(tokens[k])]) = SubSeq(input, 1, pos - 1)
  /\ pc = "lexed" => pos = Len(input) + 1

\* a keyword spelled in lower case and a newline after it have been tokenized
C9_Witness ==
  /\ pc = "lexed"
  /\ \E k \in DOMAIN tokens : IsKeywordToken(tokens[k]) /\ tokens[k].original # tokens[k].value
  /\ \E k \in DOMAIN tokens : tokens[k].type = TokenType.Newline

----
\* C10: tokenize ends on every input.  Each pass of the scan loop pushes one
\* token and moves the position forward, never past the end of the input (so
\* the distance to the end is a variant of the loop); a character no rule
\* matches becomes a one-character Operator token; an unterminated form runs
\* to the end of the input; the loop is left only at the end of the input, and
\* the returned sequence holds one EOF token, the last one.
C10_Pass ==
  (pc = "lex" /\ pc' = "lex" /\ tokens' # tokens) =>
    /\ pos' > pos
    /\ pos' <= Len(input) + 1
    /\ tokens' = Append(tokens, tokens'[Len(tokens')])
    /\ Rule(input, pos) = "fallback" =>
         (pos' = pos + 1 /\ tokens'[Len(tokens')] = Token(TokenType.Operator, <<input[pos]>>))
    /\ (Rule(input, pos) \in {"string", "quotedIdentifier", "backtick", "blockComment",
                              "dollarQuoted", "dollarBrace", "jinja"}
          /\ ~Closed(tokens'[Len(tokens')])) => pos' = Len(input) + 1

C10_Returned ==
  pc = "lexed" =>
    /\ tokens # <<>>
    /\ \A k \in DOMAIN tokens : (tokens[k].type = TokenType.EOF) = (k = Len(tokens))

C10_Position ==
  /\ pos \in 1..(Len(input) + 1)
  /\ pc = "lexed" => pos = Len(input) + 1

C10_Total == [](C10_Returned /\ C10_Position) /\ [][C10_Pass]_vars

\* an input with a character no rule matches and an unterminated string has
\* been tokenized
C10_Witness ==
  /\ pc = "lexed"
  /\ \E k \in DOMAIN tokens :
       tokens[k] = Token(TokenType.Operator, <<"$">>)
  /\ \E k \in DOMAIN tokens :
       tokens[k].type = TokenType.String /\ ~Closed(tokens[k])

----
\* the text of the last line of a text (all of it when it has no line break)
RECURSIVE LastLineFrom(_, _)
LastLineFrom(text, p) ==
  IF p = 0 \/ text[p] = "\n" THEN SubSeq(text, p + 1, Len(text))
  ELSE LastLineFrom(text, p - 1)

LastLine(text) == LastLineFrom(text, Len(text))

\* C11: a keyword rendered by the clause-keyword branch is the first token of
\* its output line: the pass keeps what was written, adds a line break unless
\* the output already stands at a line start, and leaves as the last line
\* indentSize * indentLevel spaces (one more indentSize for ON) followed by
\* the keyword.  This holds for every state the branch is entered in: inside
\* a grouping paren, after a comma, after a dot.
C11_Pass ==
  (RenderPass /\ Branch(st, merged[i]) = "clause") =>
    LET token == merged[i]
        depth == opts.indentSize * st.indentLevel
                   + (IF token.value = KW_ON THEN opts.indentSize ELSE 0)
        line == Spaces(depth) \o ApplyCase(token)
    IN /\ SubSeq(st'.result, 1, Len(st.result)) = st.result
       /\ AddedText \in {line, <<"\n">> \o line}
       /\ LastLine(st'.result) = line

----
\* the engine state in which the render loop takes up merged[k]
RECURSIVE EngineAt(_)
EngineAt(k) == IF k = 1 THEN InitialEngine ELSE Step(EngineAt(k - 1), merged, k - 1)

\* JOIN and the compound keywords that end in JOIN
IsJoinKeyword(t) ==
  /\ IsKeywordToken(t)
  /\ Len(t.value) >= Len(KW_JOIN)
  /\ SubSeq(t.value, Len(t.value) - Len(KW_JOIN) + 1, Len(t.value)) = KW_JOIN

\* merged[k] belongs to the clause merged[j] opens: what stands between them
\* is balanced and holds no semicolon
InClauseOf(j, k) ==
  /\ j < k
  /\ Balanced(SubSeq(merged, j + 1, k - 1), 1, 0, 0)
  /\ \A m \in (j + 1)..(k - 1) : merged[m].type # TokenType.Semicolon

\* C12: ON is written on a new line, one indentSize deeper than the line of
\* the JOIN keyword whose clause it stands in, at every nesting depth and for
\* every indentSize.
C12_Pass ==
  (RenderPass /\ IsKeyword(merged[i], KW_ON) /\ Branch(st, merged[i]) = "clause") =>
    \A j \in 1..(i - 1) :
      (IsJoinKeyword(merged[j]) /\ InClauseOf(j, i)) =>
        LET joinIndent == opts.indentSize * EngineAt(j).indentLevel
        IN /\ Branch(EngineAt(j), merged[j]) = "clause"
           /\ Len(st.result) > 0
           /\ AddedText \in
                {lead \o Spaces(joinIndent + opts.indentSize) \o ApplyCase(merged[i]) :
                   lead \in {<<>>, <<"\n">>}}
           /\ LastLine(st'.result) =
                Spaces(joinIndent + opts.indentSize) \o ApplyCase(merged[i])

C12_OnBelowJoin == [][C12_Pass]_vars

\* with indentSize 4, inside a subquery, JOIN has been written four spaces
\* deep and the ON of its clause eight spaces deep
C12_Witness ==
  /\ pc = "render"
  /\ opts.indentSize = 4
  /\ st.indentLevel = 1
  /\ st.parenStack = <<"subquery">>
  /\ st.prevMeaningful.value = KW_ON
  /\ LastLine(st.result) = Spaces(8) \o KW_ON
  /\ IsSubstring(<<"\n">> \o Spaces(4) \o KW_JOIN \o <<"\n">>, st.result)

----
\* the index of the token a SELECT list starts with: the first token after
\* merged[k] that is no whitespace, no comment and no DISTINCT or ALL
RECURSIVE FirstItemIndex(_)
FirstItemIndex(k) ==
  IF k >= Len(merged) THEN Len(merged)
  ELSE LET t == merged[k + 1]
       IN IF IsBlank(t) \/ IsComment(t) \/ IsKeyword(t, KW_DISTINCT) \/ IsKeyword(t, KW_ALL)
          THEN FirstItemIndex(k + 1)
          ELSE k + 1

\* merged[k] is a SELECT followed by n top-level items, the first of which
\* starts with a token of its own
IsSelectOf(k, n) ==
  /\ IsKeyword(merged[k], KW_SELECT)
  /\ CountSelectColumns(merged, k + 1) = n
  /\ merged[FirstItemIndex(k)].type \notin
       {TokenType.Comma, TokenType.CloseParen, TokenType.Semicolon, TokenType.EOF}
  /\ ~IsClauseKeyword(merged[FirstItemIndex(k)])

\* text starts with a line break and exactly n spaces
StartsOwnLine(text, n) ==
  /\ Len(text) > n + 1
  /\ SubSeq(text, 1, n + 1) = <<"\n">> \o Spaces(n)
  /\ text[n + 2] \notin WhiteSpaceChars

\* C13: when a SELECT is followed by more than one top-level item, the pass
\* that writes the first token of the first item starts a new line one
\* indent level below the SELECT line, whatever that token is, and a
\* DISTINCT or ALL between the two is written on the SELECT line.
C13_Pass ==
  RenderPass =>
    \A k \in 1..(i - 1) :
      (\E n \in 2..Len(merged) : IsSelectOf(k, n)) =>
        /\ i = FirstItemIndex(k) =>
              StartsOwnLine(AddedText, opts.indentSize * (EngineAt(k).indentLevel + 1))
        /\ (i < FirstItemIndex(k) /\ IsKeywordToken(merged[i])) =>
              AddedText = <<" ">> \o ApplyCase(merged[i])

C13_FirstItemOnOwnLine == [][C13_Pass]_vars

----
\* the position of the first character of a text that is no whitespace (0
\* when there is none)
RECURSIVE FirstInkFrom(_, _)
FirstInkFrom(text, p) ==
  IF p > Len(text) THEN 0
  ELSE IF text[p] \in WhiteSpaceChars THEN FirstInkFrom(text, p + 1)
  ELSE p

FirstInk(text) == FirstInkFrom(text, 1)

\* nothing but whitespace, DISTINCT and ALL stands between merged[k] and
\* merged[m]
NoCommentBetween(k, m) == \A q \in (k + 1)..(m - 1) : ~IsComment(merged[q])

\* C14: when a SELECT list has exactly one top-level item that does not
\* begin with CASE, the first token of the item is written on the line of
\* its SELECT: no line break is written between the SELECT keyword and the
\* first character of the item.  This is asked of every SELECT of the input.
C14_Pass ==
  RenderPass =>
    \A k \in 1..(i - 1) :
      (/\ IsSelectOf(k, 1)
       /\ i = FirstItemIndex(k)
       /\ NoCommentBetween(k, i)
       /\ ~IsKeyword(merged[i], KW_CASE)) =>
        LET ink == FirstInk(AddedText)
            since == SubSeq(st'.result, Len(EngineAt(k + 1).result) + 1, Len(st.result) + ink)
        IN /\ ink > 0
           /\ \A q \in DOMAIN since : since[q] # "\n"

C14_SingleItemOnSelectLine == [][C14_Pass]_vars

----
\* a token an item of a list can start with
IsItemStart(t) ==
  /\ t.type \notin {TokenType.Comma, TokenType.CloseParen, TokenType.Semicolon, TokenType.EOF}
  /\ ~IsBlank(t) /\ ~IsComment(t) /\ ~IsClauseKeyword(t)

\* merged[m] is the first token after the comma merged[k]
FollowsComma(k, m) ==
  /\ k < m
  /\ merged[k].type = TokenType.Comma
  /\ \A q \in (k + 1)..(m - 1) : IsBlank(merged[q])

\* C15: a comma met while the innermost open paren is no grouping paren is
\* written as the commaPosition option says.  trailing: ',' and a line break,
\* and the next item starts on the following line.  leading: a line break,
\* indentSize * indentLevel spaces and ',', and the next item follows the
\* comma after a single space.
C15_Pass ==
  RenderPass =>
    /\ (merged[i].type = TokenType.Comma /\ TopParen(st) # "grouping") =>
          AddedText = IF opts.commaPosition = "trailing" THEN <<",", "\n">>
                      ELSE <<"\n">> \o Spaces(opts.indentSize * st.indentLevel) \o <<",">>
    /\ \A k \in 1..(i - 1) :
          (FollowsComma(k, i) /\ IsItemStart(merged[i])
             /\ TopParen(EngineAt(k)) # "grouping") =>
            LET ink == FirstInk(AddedText)
            IN IF opts.commaPosition = "trailing"
               THEN ink > 0 /\ \A q \in 1..(ink - 1) : AddedText[q] = " "
               ELSE ink = 2 /\ AddedText[1] = " "

C15_CommaPerPosition == [][C15_Pass]_vars

----
\* the tokens of a sequence that are no whitespace
IsInk(t) == ~IsBlank(t)
InkTokens(toks) == SelectSeq(toks, IsInk)

\* the statement is SELECT followed by three one-token columns
IsThreeColumnSelect(toks) ==
  LET ink == InkTokens(toks)
  IN /\ Len(ink) = 7
     /\ IsKeyword(ink[1], KW_SELECT)
     /\ \A k \in {2, 4, 6} : ink[k].type = TokenType.Identifier
     /\ \A k \in {3, 5} : ink[k].type = TokenType.Comma
     /\ ink[7].type = TokenType.EOF

\* SELECT, the first column alone on the next line, and each further column
\* on a line of its own after the given prefix
ThreeColumnLayout(toks, prefix) ==
  LET ink == InkTokens(toks)
  IN ApplyCase(ink[1]) \o <<"\n">> \o OneLevel \o ink[2].value
       \o prefix \o ink[4].value \o prefix \o ink[6].value \o <<"\n">>

\* C16 as the specification words it: with leading commas and the default
\* indentSize each column after the first is prefixed by a line break, two
\* spaces, a comma and one space.
C16_LeadingCommaIndented ==
  (pc = "done" /\ opts.commaPosition = "leading"
     /\ opts.indentSize = DEFAULT_OPTIONS.indentSize /\ IsThreeColumnSelect(merged)) =>
    output = ThreeColumnLayout(merged, <<"\n", " ", " ", ",", " ">>)

\* C16: with leading commas and the default indentSize a top-level SELECT
\* list of three columns is written with the first column bare on the line
\* after SELECT and each further column prefixed by a line break, a comma and
\* one space: at indent level 0 the comma stands at the start of its line.
C16_LeadingCommaAtLineStart ==
  (pc = "done" /\ opts.commaPosition = "leading"
     /\ opts.indentSize = DEFAULT_OPTIONS.indentSize /\ IsThreeColumnSelect(merged)) =>
    output = ThreeColumnLayout(merged, <<"\n", ",", " ">>)

\* a three-column SELECT has been formatted with leading commas
C16_Witness ==
  /\ pc = "done"
  /\ opts.commaPosition = "leading"
  /\ opts.indentSize = DEFAULT_OPTIONS.indentSize
  /\ IsThreeColumnSelect(merged)
  /\ IsSubstring(<<"a", "\n", ",", " ", "a", "\n", ",", " ", "a">>, output)

----
\* the comma merged[k] is met inside a grouping paren in which no multi-line
\* block has just closed
IsInlineComma(k) ==
  /\ merged[k].type = TokenType.Comma
  /\ TopParen(EngineAt(k)) = "grouping"
  /\ ~EngineAt(k).afterBlockClose

\* C17 as the specification words it: inside a grouping paren a comma is
\* written as ',' and the next item follows it after one space, whatever the
\* commaPosition.
C17_SpacePass ==
  RenderPass =>
    /\ IsInlineComma(i) => AddedText = <<",">>
    /\ \A k \in 1..(i - 1) :
          (FollowsComma(k, i) /\ IsItemStart(merged[i]) /\ IsInlineComma(k)) =>
            (AddedText[1] = " " /\ FirstInk(AddedText) = 2)

C17_InlinePass ==
  RenderPass =>
    /\ IsInlineComma(i) => (AddedText = <<",">> /\ ~st'.lineStart)
    /\ \A k \in 1..(i - 1) :
          (FollowsComma(k, i) /\ IsInlineComma(k) /\ Branch(st, merged[i]) = "default"
             /\ ~st.needNewlineBeforeFirstColumn) =>
            AddedText = <<" ">> \o ApplyCase(merged[i])

----
\* open parens less close parens among merged[a..b]
RECURSIVE NetDepth(_, _)
NetDepth(a, b) ==
  IF a > b THEN 0
  ELSE NetDepth(a, b - 1)
         + (IF merged[b].type = TokenType.OpenParen THEN 1
            ELSE IF merged[b].type = TokenType.CloseParen THEN -1 ELSE 0)

\* the index of the paren that closes the open paren merged[k] (one past the
\* end when it is never closed)
MatchingClose(k) ==
  LET closes == {m \in (k + 1)..Len(merged) : NetDepth(k + 1, m) = -1}
  IN IF closes = {} THEN Len(merged) + 1 ELSE Min(closes)

\* the arguments of the paren merged[k]: one more than its commas that stand
\* in no nested paren
TopLevelArguments(k) ==
  1 + Cardinality({m \in (k + 1)..(MatchingClose(k) - 1) :
                     merged[m].type = TokenType.Comma /\ NetDepth(k + 1, m - 1) = 0})

\* the index of the last token before merged[k] that is no whitespace and no
\* comment (0 when there is none)
PrevInkIndex(k) ==
  LET before == {m \in 1..(k - 1) : ~IsBlank(merged[m]) /\ ~IsComment(merged[m])}
  IN IF before = {} THEN 0 ELSE Max(before)

\* merged[k] is an open paren that directly follows CONCAT or CONCAT_WS and
\* is neither a subquery paren nor the block paren of a DDL statement
IsConcatParen(k) ==
  /\ merged[k].type = TokenType.OpenParen
  /\ PrevInkIndex(k) > 0
  /\ IsKeywordToken(merged[PrevInkIndex(k)])
  /\ merged[PrevInkIndex(k)].value \in {KW_CONCAT, KW_CONCAT_WS}
  /\ ~IsClauseKeyword(FindNextNonWhitespace(merged, k + 1))
  /\ ~EngineAt(k).blockParenPending

\* C18: a paren directly after CONCAT or CONCAT_WS is expanded exactly when
\* it has more than two top-level arguments.  Expanded: '(' ends its line,
\* every top-level argument starts a line one indent level below the line of
\* CONCAT (after ', ' under leading commas) and ')' stands on a line of its
\* own at the level of CONCAT.  Otherwise the paren is written inline.
C18_Pass ==
  RenderPass =>
    /\ IsConcatParen(i) =>
          IF TopLevelArguments(i) > 2
          THEN /\ AddedText = <<"(", "\n">>
               /\ st'.parenStack = Append(st.parenStack, "concat")
               /\ st'.indentLevel = st.indentLevel + 1
          ELSE /\ AddedText = <<"(">>
               /\ st'.parenStack = Append(st.parenStack, "grouping")
               /\ st'.indentLevel = st.indentLevel
    /\ (TopParen(st) = "concat" /\ IsItemStart(merged[i]) /\ PrevInkIndex(i) > 0
          /\ merged[PrevInkIndex(i)].type \in {TokenType.OpenParen, TokenType.Comma}) =>
          LET ink == FirstInk(AddedText)
              lead == IF opts.commaPosition = "leading"
                         /\ merged[PrevInkIndex(i)].type = TokenType.Comma
                      THEN <<",", " ">> ELSE <<>>
          IN /\ ink > 0
             /\ LastLine(st.result \o SubSeq(AddedText, 1, ink)) =
                  Spaces(opts.indentSize * st.indentLevel) \o lead \o <<AddedText[ink]>>
    /\ (TopParen(st) = "concat" /\ merged[i].type = TokenType.CloseParen) =>
          /\ st.indentLevel > 0
          /\ AddedText = <<"\n">> \o Spaces(opts.indentSize * (st.indentLevel - 1)) \o <<")">>

C18_ConcatExpansion == [][C18_Pass]_vars

----
\* the open paren merged[k] is followed by a clause keyword
IsSubqueryParen(k) ==
  merged[k].type = TokenType.OpenParen
    /\ IsClauseKeyword(FindNextNonWhitespace(merged, k + 1))

\* what the tokens before merged[k] say about DDL: ddl after CREATE, ALTER or
\* DROP; pending after TABLE or VIEW under ddl and after TBLPROPERTIES, until
\* an open paren that is no subquery paren uses it up; AS under ddl and a
\* semicolon clear both
RECURSIVE DdlFlags(_)
DdlFlags(k) ==
  IF k = 1 THEN [ddl |-> FALSE, pending |-> FALSE]
  ELSE LET f == DdlFlags(k - 1)
           t == merged[k - 1]
       IN IF t.type = TokenType.Semicolon THEN [ddl |-> FALSE, pending |-> FALSE]
          ELSE IF t.type = TokenType.OpenParen
            THEN IF IsSubqueryParen(k - 1) THEN f ELSE [f EXCEPT !.pending = FALSE]
          ELSE IF ~IsKeywordToken(t) THEN f
          ELSE IF t.value \in {KW_CREATE, KW_ALTER, KW_DROP} THEN [f EXCEPT !.ddl = TRUE]
          ELSE IF t.value \in {KW_TABLE, KW_VIEW} /\ f.ddl THEN [f EXCEPT !.pending = TRUE]
          ELSE IF t.value = KW_AS /\ f.ddl THEN [ddl |-> FALSE, pending |-> FALSE]
          ELSE IF t.value = KW_TBLPROPERTIES THEN [f EXCEPT !.pending = TRUE]
          ELSE f

\* merged[k] is the first token of an item of the paren it stands in
IsFirstOfItem(k) ==
  /\ IsItemStart(merged[k])
  /\ PrevInkIndex(k) > 0
  /\ merged[PrevInkIndex(k)].type \in {TokenType.OpenParen, TokenType.Comma}

\* C19: an open paren that is no subquery paren is classified block exactly
\* when TABLE or VIEW after CREATE, ALTER or DROP, or TBLPROPERTIES, came
\* before it and no paren has used the flag since; a subquery paren leaves
\* the flag alone.  A block paren ends its line and raises the
\* indent level; inside it every top-level comma is written as commaPosition
\* says, every item starts a line at the raised level, and ')' is written
\* on a line of its own one level up (the level never drops below 0).
C19_Pass ==
  RenderPass =>
    /\ merged[i].type = TokenType.OpenParen =>
          IF IsSubqueryParen(i)
          THEN /\ st'.parenStack = Append(st.parenStack, "subquery")
               /\ st'.blockParenPending = DdlFlags(i).pending
          ELSE IF DdlFlags(i).pending
          THEN /\ st'.parenStack = Append(st.parenStack, "block")
               /\ st'.indentLevel = st.indentLevel + 1
               /\ ~st'.blockParenPending
               /\ AddedText \in {<<" ", "(", "\n">>,
                                 Spaces(opts.indentSize * st'.indentLevel) \o <<"(", "\n">>}
          ELSE /\ Len(st'.parenStack) = Len(st.parenStack) + 1
               /\ TopParen(st') \in {"grouping", "concat"}
               /\ ~st'.blockParenPending
    /\ (TopParen(st) = "block" /\ merged[i].type = TokenType.Comma) =>
          AddedText = IF opts.commaPosition = "trailing" THEN <<",", "\n">>
                      ELSE <<"\n">> \o Spaces(opts.indentSize * st.indentLevel) \o <<",">>
    /\ (TopParen(st) = "block" /\ IsFirstOfItem(i)) =>
          LET ink == FirstInk(AddedText)
              lead == IF opts.commaPosition = "leading"
                         /\ merged[PrevInkIndex(i)].type = TokenType.Comma
                      THEN <<",", " ">> ELSE <<>>
          IN /\ ink > 0
             /\ LastLine(st.result \o SubSeq(AddedText, 1, ink)) =
                  Spaces(opts.indentSize * st.indentLevel) \o lead \o <<AddedText[ink]>>
    /\ (TopParen(st) = "block" /\ merged[i].type = TokenType.CloseParen) =>
          /\ st'.indentLevel = Max({st.indentLevel - 1, 0})
          /\ AddedText = <<"\n">> \o Spaces(opts.indentSize * st'.indentLevel) \o <<")">>

C19_BlockParen == [][C19_Pass]_vars

----
\* merged[k] is an AS that follows CREATE, ALTER or DROP in its statement with
\* no earlier such AS between them
IsDdlAs(k) == IsKeyword(merged[k], KW_AS) /\ DdlFlags(k).ddl

\* nothing between merged[k] and merged[m] ends the statement or starts
\* another DDL header or table property list
NotArmedBetween(k, m) ==
  \A q \in (k + 1)..(m - 1) :
    /\ merged[q].type # TokenType.Semicolon
    /\ ~(IsKeywordToken(merged[q])
          /\ merged[q].value \in {KW_CREATE, KW_ALTER, KW_DROP, KW_TBLPROPERTIES})

\* C20: the pass that takes an AS met under ddlContext leaves ddlContext and
\* blockParenPending cleared, and from then on no open paren of the statement
\* is classified block, as long as no TBLPROPERTIES (and no further CREATE,
\* ALTER or DROP) comes between the AS and the paren.
C20_Pass ==
  RenderPass =>
    /\ IsDdlAs(i) => (st.ddlContext /\ ~st'.ddlContext /\ ~st'.blockParenPending)
    /\ (merged[i].type = TokenType.OpenParen
          /\ \E k \in 1..(i - 1) : IsDdlAs(k) /\ NotArmedBetween(k, i)) =>
          /\ ~st.blockParenPending
          /\ Len(st'.parenStack) = Len(st.parenStack) + 1
          /\ TopParen(st') # "block"

----
\* CASE keywords less END keywords among merged[a..b]
RECURSIVE NetCase(_, _)
NetCase(a, b) ==
  IF a > b THEN 0
  ELSE NetCase(a, b - 1)
         + (IF IsKeyword(merged[b], KW_CASE) THEN 1
            ELSE IF IsKeyword(merged[b], KW_END) THEN -1 ELSE 0)

\* the CASE keywords merged[m] stands in: those before it in its statement
\* whose END has not come yet
OpenCases(m) ==
  {k \in 1..(m - 1) :
     /\ IsKeyword(merged[k], KW_CASE)
     /\ \A q \in (k + 1)..(m - 1) :
          /\ NetCase(k + 1, q) >= 0
          /\ merged[q].type # TokenType.Semicolon}

\* the column at which the keyword merged[k] was written, when it ends the
\* output line it was written on
KeywordColumn(k) ==
  Len(LastLine(EngineAt(k + 1).result)) - Len(ApplyCase(merged[k]))

\* C21: inside a CASE expression every WHEN and ELSE starts a new line one
\* indent level deeper than the column of its CASE keyword, and END starts a
\* new line at the column of its CASE, wherever the CASE stands.
C21_Pass ==
  (RenderPass /\ OpenCases(i) # {}
     /\ IsKeywordToken(merged[i]) /\ merged[i].value \in {KW_WHEN, KW_ELSE, KW_END}) =>
    LET column == KeywordColumn(Max(OpenCases(i)))
        depth == IF merged[i].value = KW_END THEN column ELSE column + opts.indentSize
        line == Spaces(depth) \o ApplyCase(merged[i])
    IN /\ AddedText \in {line, <<"\n">> \o line}
       /\ LastLine(st'.result) = line

C21_CaseRelativeLayout == [][C21_Pass]_vars

----
\* C22: WHEN, ELSE and END are laid out relative to a CASE only while
\* caseStack is non-empty, that is while a CASE of the statement is open; with
\* caseStack empty a WHEN is written as a clause keyword, on a new line at the
\* current indent, and WHEN, ELSE and END leave caseStack and indentLevel as
\* they were.
C22_Pass ==
  (RenderPass /\ IsKeywordToken(merged[i])
     /\ merged[i].value \in {KW_WHEN, KW_ELSE, KW_END}) =>
    LET level == Spaces(opts.indentSize * st.indentLevel)
        arm == level \o OneLevel \o ApplyCase(merged[i])
        plain == level \o ApplyCase(merged[i])
    IN /\ (st.caseStack # <<>>) <=> (OpenCases(i) # {})
       /\ IF st.caseStack = <<>>
            THEN /\ st'.caseStack = <<>>
                 /\ st'.indentLevel = st.indentLevel
                 /\ merged[i].value = KW_WHEN =>
                      /\ AddedText \in {plain, <<"\n">> \o plain}
                      /\ LastLine(st'.result) = plain
          ELSE IF merged[i].value = KW_END
            THEN /\ LastLine(st'.result) = plain
                 /\ st'.indentLevel = st.caseStack[Len(st.caseStack)]
                 /\ st'.caseStack = SubSeq(st.caseStack, 1, Len(st.caseStack) - 1)
          ELSE /\ LastLine(st'.result) = arm
               /\ st'.caseStack = st.caseStack
               /\ st'.indentLevel = st.indentLevel

C22_CaseLayoutOnlyInsideCase == [][C22_Pass]_vars

\* a WHEN that stands in no CASE has been written as a clause keyword: on a
\* line of its own at the current indent, with caseStack still empty
C22_Witness ==
  /\ pc = "render"
  /\ st.caseStack = <<>>
  /\ st.indentLevel = 0
  /\ st.prevMeaningful.value = KW_WHEN
  /\ st.result = <<"a", "\n">> \o KW_WHEN

----
\* the number of line breaks a text ends with
RECURSIVE TrailingBreaks(_)
TrailingBreaks(text) ==
  IF text = <<>> \/ text[Len(text)] # "\n" THEN 0
  ELSE 1 + TrailingBreaks(SubSeq(text, 1, Len(text) - 1))

\* the last token before merged[k] that is no whitespace (NullToken when there
\* is none): the previous meaningful token of the engine
Preceding(k) ==
  LET before == {m \in 1..(k - 1) : ~IsBlank(merged[m])}
  IN IF before = {} THEN NullToken ELSE merged[Max(before)]

\* the comment merged[i] needs no blank line above it
IsGroupedComment ==
  \/ st.result = <<>>
  \/ st.statementStart
  \/ Preceding(i).type \in {TokenType.Comma, TokenType.OpenParen}
  \/ IsComment(Preceding(i))
  \/ IsKeyword(Preceding(i), KW_CASE)

\* C23: every Comment and BlockComment token is written alone on a line of
\* its own: the pass adds no text but line breaks, the indentation, the
\* comment and the line break that ends its line.  Exactly one blank line
\* stands above the comment, unless the output is still empty, the engine is
\* at the start of a statement, or the token before it is a comma, an
\* open paren, another comment or CASE; then the pass adds no blank line, and
\* a comment that follows a comment stands on the very next line.
C23_Pass ==
  (RenderPass /\ IsComment(merged[i])) =>
    \E n \in 0..Len(AddedText) :
      LET line == Spaces(n) \o merged[i].value \o <<"\n">>
          above == SubSeq(st'.result, 1, Len(st'.result) - Len(line))
      IN /\ Len(AddedText) >= Len(line)
         /\ st'.result = above \o line
         /\ above \in {st.result, st.result \o <<"\n">>, st.result \o <<"\n", "\n">>}
         /\ above = <<>> \/ above[Len(above)] = "\n"
         /\ st'.lineStart
         /\ IF IsGroupedComment
              THEN /\ above = IF TrailingBreaks(st.result) > 0 \/ st.result = <<>>
                                THEN st.result ELSE st.result \o <<"\n">>
                   /\ IsComment(Preceding(i)) => TrailingBreaks(above) = 1
            ELSE TrailingBreaks(above) = 2

C23_CommentOnOwnLine == [][C23_Pass]_vars

\* a comment has been written under one blank line after an identifier, and a
\* second comment on the line right below it
C23_Witness ==
  /\ pc = "render"
  /\ IsComment(st.prevMeaningful)
  /\ st.result = <<"a", "\n", "\n">> \o OneLevel \o L_blockComment \o <<"\n">>
                    \o OneLevel \o L_blockComment \o <<"\n">>

----
\* the column at which the pass writes its token: the length of what stands
\* on the output line before the first character of the pass that is no
\* whitespace
InkColumn ==
  LET p == FirstInk(AddedText)
  IN Len(LastLine(st.result \o SubSeq(AddedText, 1, p - 1)))

\* the column of the comment that ends the output, with its closing line break
CommentColumn(comment) ==
  Len(LastLine(SubSeq(st.result, 1, Len(st.result) - 1))) - Len(comment.value)

\* C24: a comment is indented to the column at which the next token that is
\* no whitespace and no comment is then written, whatever that token is: a
\* clause keyword, ON, CASE, WHEN, ELSE, END, an identifier, an open or close
\* paren, COMMENT in a function definition.
C24_Pass ==
  (RenderPass /\ IsComment(Preceding(i)) /\ ~IsBlank(merged[i]) /\ ~IsComment(merged[i])) =>
    InkColumn = CommentColumn(Preceding(i))

C24_CommentAlignedWithNext == [][C24_Pass]_vars

----
\* merged[k] is a close paren that closes a subquery, block or concat paren
\* standing directly inside a grouping paren (or, with inGrouping FALSE, inside
\* anything else or nothing)
ClosesBlockAt(k, inGrouping) ==
  LET e == EngineAt(k)
      depth == Len(e.parenStack)
  IN /\ k \in 1..Len(merged)
     /\ merged[k].type = TokenType.CloseParen
     /\ TopParen(e) \in {"subquery", "block", "concat"}
     /\ inGrouping <=> (depth > 1 /\ e.parenStack[depth - 1] = "grouping")

\* the index of the last token before merged[k] that is no whitespace
\* (0 when there is none)
PrecedingIndex(k) ==
  LET before == {m \in 1..(k - 1) : ~IsBlank(merged[m])}
  IN IF before = {} THEN 0 ELSE Max(before)

\* C25: when a subquery, block or concat paren closes directly inside a
\* grouping paren, afterBlockClose is set and what follows the ')' is forced
\* onto a new line: a comma is written per commaPosition and not inline, and a
\* token that is no comma does not share the line of the ')'.  When the paren
\* closes inside anything but a grouping paren the flag is not set, and a
\* token of the default branch stays on the line of the ')'.
C25_Pass ==
  RenderPass =>
    /\ ClosesBlockAt(i, TRUE) => st'.afterBlockClose
    /\ ClosesBlockAt(i, FALSE) => (st'.afterBlockClose <=> st.afterBlockClose)
    /\ (ClosesBlockAt(PrecedingIndex(i), TRUE) /\ ~IsBlank(merged[i])) =>
         IF merged[i].type = TokenType.Comma
           THEN AddedText = IF opts.commaPosition = "trailing" THEN <<",", "\n">>
                            ELSE <<"\n">> \o Indent(st) \o <<",">>
         ELSE AddedText[1] = "\n"
    /\ (ClosesBlockAt(PrecedingIndex(i), FALSE) /\ Branch(st, merged[i]) = "default") =>
         AddedText = <<" ">> \o ApplyCase(merged[i])

C25_AfterBlockClose == [][C25_Pass]_vars

----
\* merged[k] stands in a function definition: a FUNCTION keyword met after
\* CREATE, ALTER or DROP comes before it, with no semicolon in between
InFunctionDefinition(k) ==
  \E f \in 1..(k - 1) :
    /\ IsKeyword(merged[f], KW_FUNCTION)
    /\ DdlFlags(f).ddl
    /\ \A q \in (f + 1)..(k - 1) : merged[q].type # TokenType.Semicolon

\* C26: COMMENT starts a new line at the current indent exactly when
\* functionContext is set, and functionContext is set exactly from a FUNCTION
\* keyword met in DDL context until the next semicolon; in every other state
\* COMMENT is written inline like a keyword that is no clause keyword: with no
\* line break, unless the engine owes one to the first column of a SELECT or
\* to a block closed inside a grouping paren.
C26_Pass ==
  RenderPass =>
    /\ st.functionContext <=> InFunctionDefinition(i)
    /\ IsKeyword(merged[i], KW_COMMENT) =>
         LET line == Spaces(opts.indentSize * st.indentLevel) \o ApplyCase(merged[i])
         IN IF InFunctionDefinition(i)
              THEN /\ AddedText = IF st.lineStart \/ st.result = <<>>
                                    THEN line ELSE <<"\n">> \o line
                   /\ LastLine(st'.result) = line
            ELSE /\ Branch(st, merged[i]) \in {"default", "afterDot"}
                 /\ (~st.lineStart /\ ~st.needNewlineBeforeFirstColumn /\ ~st.afterBlockClose) =>
                      AddedText \in {<<" ">> \o ApplyCase(merged[i]), ApplyCase(merged[i])}

C26_CommentKeyword == [][C26_Pass]_vars

\* COMMENT has been written on a line of its own in a function definition
C26_Witness ==
  /\ pc = "render"
  /\ st.functionContext
  /\ st.result = KW_CREATE \o <<" ">> \o KW_FUNCTION \o <<" ", "a", "\n">> \o KW_COMMENT

----
\* the token before the paren merged[k] makes it a function-call paren: an
\* identifier, a backtick identifier, or a keyword that is no clause keyword
\* and neither IN nor NOT IN
IsCallParen(k) ==
  LET prev == Preceding(k)
  IN \/ prev.type \in {TokenType.Identifier, TokenType.Backtick}
     \/ /\ IsKeywordToken(prev)
        /\ prev.value \notin CLAUSE_KEYWORDS
        /\ prev.value \notin {KW_IN, Compound(KW_NOT, KW_IN)}

\* C27: a grouping paren that is not the first thing on its line is written
\* with no space before it when the token before it makes it a function-call
\* paren, and after exactly one space otherwise; a subquery or block paren
\* that is not first on its line is always written after exactly one space.
C27_Pass ==
  (RenderPass /\ merged[i].type = TokenType.OpenParen /\ ~st.lineStart) =>
    LET kind == st'.parenStack[Len(st'.parenStack)]
    IN /\ st.result # <<>> /\ st.result[Len(st.result)] \notin WhiteSpaceChars
       /\ kind = "grouping" =>
            AddedText = IF IsCallParen(i) THEN <<"(">> ELSE <<" ", "(">>
       /\ kind \in {"subquery", "block"} => AddedText = <<" ", "(", "\n">>

C27_ParenSpacing == [][C27_Pass]_vars

\* the paren of an IN list has been written after one space, NOT IN being one
\* keyword
C27_Witness ==
  /\ pc = "render"
  /\ st.parenStack = <<"grouping">>
  /\ st.prevMeaningful.type = TokenType.OpenParen
  /\ st.result = <<"a", " ">> \o KW_NOT \o <<" ">> \o KW_IN \o <<" ", "(">>

----
\* the source text of tokens[a..b], the tokens as the lexer returned them
TokenSource(a, b) == Flatten([k \in 1..(b - a + 1) |-> SourceText(tokens[a + k - 1])])

\* the index of the AS of 'LANGUAGE <identifier or keyword> AS' when tokens[l]
\* is that LANGUAGE and what follows the AS is neither a string nor a
\* dollar-quoted string; 0 otherwise
UnquotedAs(l) ==
  LET id == SkipBlank(tokens, l + 1)
      as == SkipBlank(tokens, id + 1)
      first == SkipBlank(tokens, as + 1)
  IN IF /\ IsKeyword(tokens[l], KW_LANGUAGE)
        /\ id <= Len(tokens)
        /\ tokens[id].type \in {TokenType.Identifier, TokenType.Keyword}
        /\ as <= Len(tokens)
        /\ IsKeyword(tokens[as], KW_AS)
        /\ first <= Len(tokens)
        /\ tokens[first].type \notin {TokenType.String, TokenType.DollarQuotedString}
     THEN as ELSE 0

\* tokens[l] is the first LANGUAGE of its statement that opens an unquoted body
OpensUnquotedBody(l) ==
  /\ UnquotedAs(l) > 0
  /\ \A q \in 1..(l - 1) :
       UnquotedAs(q) > 0 => \E r \in (q + 1)..(l - 1) : tokens[r].type = TokenType.Semicolon

\* C28: when 'LANGUAGE <identifier or keyword> AS' is followed by a token that
\* is neither a string nor a dollar-quoted string, the tokens after AS up to
\* the next semicolon or the end of the input are replaced by one verbatim
\* token whose text is the source text of that span less its trailing
\* whitespace, and this text stands unchanged in the output, after the AS
\* and before the semicolon or the end.
C28_VerbatimBody ==
  pc = "done" =>
    /\ TokenSource(1, Len(tokens)) = input
    /\ \A l \in 1..Len(tokens) :
         OpensUnquotedBody(l) =>
           LET as == UnquotedAs(l)
               e == BodyEnd(tokens, as + 1)
               body == TrimEnd(TokenSource(as + 1, e - 1))
               gap == IF body[1] \in {"\n", "\r"} THEN <<>> ELSE <<" ">>
               written == ApplyCase(tokens[as]) \o gap \o body
           IN body # <<>> =>
                /\ \E m \in 1..Len(merged) :
                     merged[m] = Token(TokenType.DollarQuotedString, body)
                /\ \/ IsSubstring(written \o <<";">>, output)
                   \/ /\ tokens[e].type = TokenType.EOF
                      /\ IsSubstring(written \o <<"\n">>, output)

----
\* C29: where the scan loop stands at '$$' it pushes one DollarQuotedString
\* token that runs through the next '$$', or to the end of the input when
\* there is none, so that nothing between the delimiters becomes a token of
\* its own and '$$$$' is one token with an empty body; and the engine writes
\* the text of every such token unchanged.
C29_Pass ==
  /\ (/\ pc = "lex" /\ pos' # pos
      /\ pos < Len(input) /\ input[pos] = "$" /\ input[pos + 1] = "$") =>
       LET closers == {q \in (pos + 2)..(Len(input) - 1) :
                         input[q] = "$" /\ input[q + 1] = "$"}
           last == IF closers = {} THEN Len(input) ELSE Min(closers) + 1
       IN /\ tokens' = Append(tokens, Token(TokenType.DollarQuotedString,
                                            SubSeq(input, pos, last)))
          /\ pos' = last + 1
  /\ (pc = "lex" /\ pc' = "lexed") =>
       \A k \in 1..Len(tokens') :
         tokens'[k].type = TokenType.DollarQuotedString =>
           IsSubstring(tokens'[k].value,
                       RunFrom(InitialEngine, MergePasses(tokens'), 1).result)

C29_DollarQuoted == [][C29_Pass]_vars

\* '$$:$$' has been lexed as one token, its ':' no parameter marker
C29_Witness ==
  /\ pc = "lexed"
  /\ tokens = <<Token(TokenType.DollarQuotedString, <<"$", "$", ":", "$", "$">>), EOFToken>>

----
\* C30: formatDatabricksSQL is deterministic and keeps nothing from one call
\* to the next: whatever calls came before, a call returns the string that
\* the text and the options alone determine, so two calls with the same text
\* and options return the same string.
C30_Deterministic ==
  pc = "done" => output = FormatDatabricksSQL(input)

\* the function is called a second time with the text of the call before,
\* which ended inside a block paren and a CASE
C30_Witness ==
  /\ pc = "start"
  /\ output = <<>>
  /\ tokens = Tokenize(input)
  /\ st.parenStack = <<"block">>
  /\ st.caseStack # <<>>
  /\ st.indentLevel = 2

----
\* C31: right after the pass over a Semicolon token, whatever the state
\* before it, indentLevel is 0, lineStart and statementStart are set,
\* ddlContext, blockParenPending, functionContext, afterBlockClose and
\* needNewlineBeforeFirstColumn are clear, and the paren stack and the CASE
\* stack are both empty.
C31_Pass ==
  (RenderPass /\ merged[i].type = TokenType.Semicolon) =>
    /\ st'.indentLevel = 0
    /\ st'.lineStart /\ st'.statementStart
    /\ ~st'.ddlContext /\ ~st'.blockParenPending /\ ~st'.functionContext
    /\ ~st'.afterBlockClose /\ ~st'.needNewlineBeforeFirstColumn
    /\ st'.caseStack = <<>>
    /\ st'.parenStack = <<>>

C31_SemicolonResets == [][C31_Pass]_vars

----
\* the one classification of the open paren merged[k], by priority: subquery
\* when the next token that is no whitespace is a clause keyword, else block
\* when blockParenPending is set, else concat when the token before it is
\* CONCAT or CONCAT_WS and it has more than two top-level arguments, else
\* grouping
Classification(k, pending) ==
  IF IsSubqueryParen(k) THEN "subquery"
  ELSE IF pending THEN "block"
  ELSE IF /\ IsKeywordToken(Preceding(k))
          /\ Preceding(k).value \in {KW_CONCAT, KW_CONCAT_WS}
          /\ TopLevelArguments(k) > 2 THEN "concat"
  ELSE "grouping"

\* C32: every open paren gets the one classification its priority order
\* gives and pushes exactly one entry of that kind on the paren stack; a
\* subquery, block or concat paren raises indentLevel by one and ends its
\* line after '(', a grouping paren leaves indentLevel alone and writes no
\* line break.
C32_Pass ==
  (RenderPass /\ merged[i].type = TokenType.OpenParen) =>
    LET kind == Classification(i, st.blockParenPending)
        n == Len(AddedText)
    IN /\ st'.parenStack = Append(st.parenStack, kind)
       /\ IF kind = "grouping"
            THEN /\ st'.indentLevel = st.indentLevel
                 /\ AddedText[n] = "("
                 /\ \A q \in 1..n : AddedText[q] # "\n"
                 /\ ~st'.lineStart
          ELSE /\ st'.indentLevel = st.indentLevel + 1
               /\ n >= 2 /\ AddedText[n - 1] = "(" /\ AddedText[n] = "\n"
               /\ \A q \in 1..(n - 1) : AddedText[q] # "\n"
               /\ st'.lineStart

C32_ParenClassification == [][C32_Pass]_vars

\* the paren after CREATE TABLE has been classified subquery though
\* blockParenPending was set (and is still), and its ')' comes next
C32_Witness ==
  /\ pc = "render"
  /\ st.parenStack = <<"subquery">>
  /\ st.blockParenPending
  /\ st.indentLevel = 1
  /\ merged[i].type = TokenType.CloseParen

----
\* C33: a CASE pushes the current indentLevel on the CASE stack and raises
\* indentLevel by one; the END that closes it pops the stack and sets
\* indentLevel to the value pushed, so that after CASE ... END, whatever was
\* nested in between (CASEs, subqueries), indentLevel and the CASE stack are
\* what they were before the CASE.
C33_Pass ==
  RenderPass =>
    /\ IsKeyword(merged[i], KW_CASE) =>
         /\ st'.caseStack = Append(st.caseStack, st.indentLevel)
         /\ st'.indentLevel = st.indentLevel + 1
    /\ (IsKeyword(merged[i], KW_END) /\ OpenCases(i) # {}) =>
         LET before == EngineAt(Max(OpenCases(i)))
         IN /\ st.caseStack # <<>>
            /\ st'.indentLevel = st.caseStack[Len(st.caseStack)]
            /\ st'.indentLevel = before.indentLevel
            /\ st'.caseStack = before.caseStack

C33_CaseEndRestores == [][C33_Pass]_vars

\* the END of an inner CASE that holds a subquery has been written: the
\* level and the stack are those of the outer CASE again
C33_Witness ==
  /\ pc = "render"
  /\ IsKeyword(st.prevMeaningful, KW_END)
  /\ st.caseStack = <<0>>
  /\ st.indentLevel = 1
  /\ st.parenStack = <<>>
  /\ IsSubstring(<<"(", "\n">>, st.result)

----
\* C34: the keyword-merge pass replaces every keyword of the merge table that
\* is followed, whitespace and newline tokens aside, by the keywords of one of
\* its suffix phrases (the first such phrase in table order) by one Keyword
\* token whose text is the keyword, a space and the phrase; the span replaced
\* runs from the keyword to the last word of the phrase.  Every token outside
\* such a span is passed on unchanged and in order, EndOfInput last.

\* the tokens k+1 .. e, blanks aside, are the keywords of parts, e the last
Spells(toks, k, e, parts) ==
  /\ ~IsBlank(toks[e])
  /\ LET ink == InkTokens(SubSeq(toks, k + 1, e))
     IN /\ Len(ink) = Len(parts)
        /\ \A n \in 1..Len(parts) :
             ink[n].type = TokenType.Keyword /\ ink[n].value = parts[n]

\* the phrases of the table spelled after token k: <<place in the table, end>>
PhrasesAt(toks, k) ==
  IF toks[k].type # TokenType.Keyword THEN {}
  ELSE {ne \in (DOMAIN Mergeables(toks[k].value)) \X ((k + 1)..Len(toks)) :
          Spells(toks, k, ne[2], Mergeables(toks[k].value)[ne[1]])}

FirstPhraseAt(toks, k) ==
  CHOOSE ne \in PhrasesAt(toks, k) : \A other \in PhrasesAt(toks, k) : ne[1] <= other[1]

SpanEnd(toks, k) == IF PhrasesAt(toks, k) = {} THEN k ELSE FirstPhraseAt(toks, k)[2]

Swallowed(toks, q) == \E k \in 1..(q - 1) : SpanEnd(toks, k) >= q

Fused(toks) ==
  LET kept == SelectSeq([q \in 1..Len(toks) |-> q], LAMBDA q : ~Swallowed(toks, q))
  IN [n \in 1..Len(kept) |->
        LET q == kept[n]
        IN IF PhrasesAt(toks, q) = {} THEN toks[q]
           ELSE [type |-> TokenType.Keyword,
                 value |-> toks[q].value \o <<" ">>
                             \o JoinWords(Mergeables(toks[q].value)[FirstPhraseAt(toks, q)[1]]),
                 original |-> toks[q].original]]

C34_KeywordMerge ==
  (pc = "render" /\ i = 1) =>
    LET out == MergeClauseKeywords(tokens)
    IN /\ out = Fused(tokens)
       /\ out[Len(out)] = tokens[Len(tokens)]
       /\ out[Len(out)].type = TokenType.EOF
       /\ (\A k \in DOMAIN tokens : ~IsKeyword(tokens[k], KW_LANGUAGE)) => merged = out

\* GROUP and BY, a line break between them in the source, have been merged
\* into one token and the line break is gone with them
C34_Witness ==
  /\ pc = "render" /\ i = 1
  /\ \E k \in DOMAIN tokens :
       /\ IsKeyword(tokens[k], KW_GROUP)
       /\ SpanEnd(tokens, k) > k + 1
       /\ \E q \in (k + 1)..SpanEnd(tokens, k) : tokens[q].type = TokenType.Newline
  /\ \E n \in DOMAIN merged : merged[n] = KeywordToken(Compound(KW_GROUP, KW_BY), L_Group)
  /\ \A n \in DOMAIN merged : merged[n].type # TokenType.Newline

----
\* C35: a line comment token ends before the terminator of its line: its text
\* holds neither a carriage return nor a line feed, and the token after it is
\* the Newline token of that terminator (or the end of the input).
C35_LineCommentStopsAtLineEnd ==
  \A k \in DOMAIN tokens :
    tokens[k].type = TokenType.Comment =>
      /\ \A n \in DOMAIN tokens[k].value : tokens[k].value[n] \notin {"\r", "\n"}
      /\ k < Len(tokens) => tokens[k + 1].type \in {TokenType.Newline, TokenType.EOF}

----
\* C36: the text of every Number token is a run of digits and dots with at
\* least one digit and at most one run of dots in it, followed or not by an
\* exponent: e or E, an optional sign, digits.

\* the number of maximal runs of dots in text
DotRuns(text) ==
  Cardinality({n \in DOMAIN text : text[n] = "." /\ (n = 1 \/ text[n - 1] # ".")})

IsMantissa(text, runs) ==
  /\ \A n \in DOMAIN text : text[n] \in DigitSet \cup {"."}
  /\ \E n \in DOMAIN text : text[n] \in DigitSet
  /\ DotRuns(text) <= runs

IsExponent(text) ==
  \/ text = <<>>
  \/ /\ text[1] \in {"e", "E"}
     /\ \E from \in {2, 3} :
          /\ from = 3 => (Len(text) >= 2 /\ text[2] \in {"+", "-"})
          /\ \A n \in from..Len(text) : text[n] \in DigitSet

HasNumberShape(text, runs) ==
  \E m \in 1..Len(text) :
    /\ IsMantissa(SubSeq(text, 1, m), runs)
    /\ IsExponent(SubSeq(text, m + 1, Len(text)))

C36_NumberShape ==
  \A k \in DOMAIN tokens :
    tokens[k].type = TokenType.Number => HasNumberShape(tokens[k].value, 1)

----
\* C37: indentLevel is a natural number in every state of the engine, whatever
\* the token sequence: more ')' than '(', END without CASE, a semicolon
\* inside an open paren or CASE.
C37_IndentLevelNatural == st.indentLevel \in Nat

\* a ')' has just closed a subquery paren whose statement a semicolon had
\* ended before: indentLevel was 0 at the ')' and is 0 after it
C37_Witness ==
  /\ pc = "render"
  /\ i > 1
  /\ merged[i - 1].type = TokenType.CloseParen
  /\ st.indentLevel = 0
  /\ \E k \in 1..(i - 1) : merged[k].type = TokenType.Semicolon
  /\ EngineAt(i - 1).indentLevel = 0
  /\ TopParen(EngineAt(i - 1)) = "subquery"

----
\* C38: while a statement whose parentheses and CASE ... END pairs are
\* properly nested is being formatted, indentLevel is the number of subquery,
\* block and concat entries on the paren stack plus the depth of the CASE
\* stack; when the end of the statement is reached indentLevel is 0 and both
\* stacks are empty.

\* merged[a..b] nests properly, open being the constructs open before a
\* (innermost last): every ')' closes a '(' and every END a CASE, the one
\* opened last, and nothing is left open at b
RECURSIVE NestsProperly(_, _, _)
NestsProperly(a, b, open) ==
  IF a > b THEN open = <<>>
  ELSE LET t == merged[a]
           top == IF open = <<>> THEN "none" ELSE open[Len(open)]
           rest == SubSeq(open, 1, Len(open) - 1)
       IN IF t.type = TokenType.OpenParen THEN NestsProperly(a + 1, b, Append(open, "paren"))
          ELSE IF IsKeyword(t, KW_CASE) THEN NestsProperly(a + 1, b, Append(open, "case"))
          ELSE IF t.type = TokenType.CloseParen
            THEN top = "paren" /\ NestsProperly(a + 1, b, rest)
          ELSE IF IsKeyword(t, KW_END)
            THEN top = "case" /\ NestsProperly(a + 1, b, rest)
          ELSE NestsProperly(a + 1, b, open)

\* the first token of the statement merged[k] stands in or ends
StatementFirst(k) ==
  LET ends == {m \in 1..(k - 1) : merged[m].type = TokenType.Semicolon}
  IN IF ends = {} THEN 1 ELSE Max(ends) + 1

\* the semicolon or end of input that ends the statement of merged[k]
StatementEnd(k) ==
  Min({m \in k..Len(merged) : merged[m].type \in {TokenType.Semicolon, TokenType.EOF}})

IndentingParens(s) ==
  Cardinality({n \in DOMAIN s.parenStack : s.parenStack[n] \in {"subquery", "block", "concat"}})

C38_LevelIsOpenConstructs ==
  (pc = "render" /\ NestsProperly(StatementFirst(i), StatementEnd(i) - 1, <<>>)) =>
    /\ st.indentLevel = IndentingParens(st) + Len(st.caseStack)
    /\ i = StatementEnd(i) =>
         (st.indentLevel = 0 /\ st.parenStack = <<>> /\ st.caseStack = <<>>)

----
\* C39: under the upper and the lower policy the output, its whitespace
\* characters deleted, is the input, its whitespace characters deleted, up to
\* the letter case of the keywords: no character of a token is dropped,
\* doubled or moved.

\* text less its whitespace characters
Squeezed(text) == SelectSeq(text, LAMBDA c : c \notin WhiteSpaceChars)

\* for each character of the squeezed source of toks, whether it stands in a
\* keyword
RECURSIVE InKeyword(_, _)
InKeyword(toks, k) ==
  IF k > Len(toks) THEN <<>>
  ELSE [n \in 1..Len(Squeezed(SourceText(toks[k]))) |-> toks[k].type = TokenType.Keyword]
         \o InKeyword(toks, k + 1)

C39_EveryTokenOnce ==
  (pc = "done" /\ opts.keywordCase \in {"upper", "lower"}) =>
    LET out == Squeezed(output)
        in == Squeezed(input)
        keyword == InKeyword(tokens, 1)
    IN /\ Len(out) = Len(in)
       /\ \A n \in DOMAIN in :
            \/ out[n] = in[n]
            \/ keyword[n] /\ ToUpperCase(<<out[n]>>) = ToUpperCase(<<in[n]>>)

----
\* C40: the spaces and the indentation the engine writes before a token are
\* directly followed by a character of the token that is no whitespace, the
\* token being a dollar-quoted string or a merged LANGUAGE body included.

\* the text of the token as the engine writes it
Written(token) == IF IsComment(token) THEN Trim(token.value) ELSE ApplyCase(token)

C40_Pass ==
  (RenderPass /\ AddedText # <<>>) =>
    LET text == Written(merged[i])
    IN \E lead \in 0..(Len(AddedText) - Len(text)) :
         /\ SubSeq(AddedText, lead + 1, lead + Len(text)) = text
         /\ \A n \in 1..lead : AddedText[n] \in WhiteSpaceChars
         /\ (lead > 0 /\ AddedText[lead] = " ") => text[1] \notin WhiteSpaceChars

C40_NoDanglingSpace == [][C40_Pass]_vars

====
